---------------------------- MODULE Spec2Model ----------------------------
(***************************************************************************)
(* A model of the json5 parser (src/src/parser.rs) and of the top-level   *)
(* entry `parse`.                                                          *)
(*                                                                         *)
(* A character is its Unicode scalar value (an integer); a text is a      *)
(* sequence of characters.  The parser's state (the `chars` iterator and  *)
(* the current symbol `ch`) is a text `s` and a cursor `p`: `ch` is s[p], *)
(* and None once p is past the end (or 0, before the first `next`).       *)
(* Every grammar routine is an operator over (s, p) that returns the      *)
(* routine's Result and the cursor it leaves behind.                      *)
(*                                                                         *)
(* The Value model (src/src/value.rs) is navigated by indexing: `val` is  *)
(* the value a chain of index operations has reached and `path` the       *)
(* indices applied so far.                                                 *)
(***************************************************************************)
EXTENDS Integers, Sequences, FiniteSets, TLC

VARIABLES doc, input, pos, pc, val, result, path

vars == <<doc, input, pos, pc, val, result, path>>

---------------------------------------------------------------------------
(* Characters named in the source.                                         *)
CH_NUL == 0
CH_BS == 8
CH_TAB == 9
CH_LF == 10
CH_VT == 11
CH_FF == 12
CH_CR == 13
CH_SPACE == 32
CH_DQUOTE == 34
CH_SQUOTE == 39
CH_STAR == 42
CH_PLUS == 43
CH_COMMA == 44
CH_MINUS == 45
CH_DOT == 46
CH_SLASH == 47
CH_0 == 48
CH_9 == 57
CH_COLON == 58
CH_UPPER_A == 65
CH_UPPER_E == 69
CH_UPPER_F == 70
CH_UPPER_I == 73
CH_UPPER_N == 78
CH_UPPER_X == 88
CH_LBRACKET == 91
CH_BACKSLASH == 92
CH_RBRACKET == 93
CH_a == 97
CH_b == 98
CH_e == 101
CH_f == 102
CH_i == 105
CH_l == 108
CH_n == 110
CH_r == 114
CH_s == 115
CH_t == 116
CH_u == 117
CH_v == 118
CH_x == 120
CH_y == 121
CH_LBRACE == 123
CH_RBRACE == 125
CH_LS == 8232
CH_PS == 8233

(* Option<char>::None, the value of `ch` at end of input.                  *)
None == -1

(* The three error kinds, and the Ok marker of a Result.                   *)
UnexpectedCharacter == "UnexpectedCharacter"
UnexpectedEndOfJson == "UnexpectedEndOfJson"
UnparseableNumber == "UnparseableNumber"
NoError == "Ok"

---------------------------------------------------------------------------
(* The Value enum.  A String holds its characters, an Array its elements  *)
(* in order, an Object a function from key to value.                       *)
NoValue == [t |-> "None"]
Null == [t |-> "Null"]
Boolean(b) == [t |-> "Boolean", b |-> b]
Integer(i) == [t |-> "Integer", i |-> i]
(* A Float is kept as its class and, when finite, its sign, decimal        *)
(* significand and decimal exponent (significand without trailing zeros). *)
Float(class, neg, mant, exp) ==
    [t |-> "Float", class |-> class, neg |-> neg, mant |-> mant, exp |-> exp]
String(s) == [t |-> "String", s |-> s]
Array(v) == [t |-> "Array", v |-> v]
Object(m) == [t |-> "Object", m |-> m]

INFINITY == Float("inf", FALSE, 0, 0)
NEG_INFINITY == Float("inf", TRUE, 0, 0)
NAN == Float("nan", FALSE, 0, 0)

(* HashMap::new and HashMap::insert (an existing key is overwritten).      *)
HashMapNew == [k \in {} |-> NoValue]

HashMapInsert(m, key, value) ==
    [k \in (DOMAIN m) \cup {key} |-> IF k = key THEN value ELSE m[k]]

(* Index<usize> and Index<&str> for Value: Vec::get / HashMap::get, and   *)
(* the Null sentinel for a miss or for any other variant.                  *)
(* A get that counts the elements from 1.                                  *)
vec_get_or_null_from_one(vec, i) == IF i >= 1 /\ i <= Len(vec) THEN vec[i] ELSE Null

vec_get_or_null(vec, i) == IF i < Len(vec) THEN vec[i + 1] ELSE Null

map_get_or_null(map, key) == IF key \in DOMAIN map THEN map[key] ELSE Null

index_usize(v, i) == IF v.t = "Array" THEN vec_get_or_null(v.v, i) ELSE Null

index_str(v, key) == IF v.t = "Object" THEN map_get_or_null(v.m, key) ELSE Null

(* Result<Value, Error> (and Result<(), Error>, with no value) together   *)
(* with the cursor after the call.                                         *)
Ok(v, p) == [err |-> NoError, val |-> v, pos |-> p]
Err(e, p) == [err |-> e, val |-> NoValue, pos |-> p]
IsOk(r) == r.err = NoError

---------------------------------------------------------------------------
(* Cursor primitives.  A routine that goes on with the outcome of a call  *)
(* (the `?` operator, a `match` on a Result) is written as an operator    *)
(* that takes that outcome as its last argument.                           *)
Ch(s, p) == IF p >= 1 /\ p <= Len(s) THEN s[p] ELSE None

next(p) == p + 1

peek(s, p) == Ch(s, p + 1)

expect(s, p, c) ==
    IF Ch(s, p) = None THEN Err(UnexpectedEndOfJson, p)
    ELSE IF Ch(s, p) = c THEN Ok(NoValue, p)
    ELSE Err(UnexpectedCharacter, p)

consume(s, p, c) ==
    IF Ch(s, p) = None THEN Err(UnexpectedEndOfJson, p)
    ELSE IF Ch(s, p) = c THEN Ok(NoValue, next(p))
    ELSE Err(UnexpectedCharacter, p)

RECURSIVE consume_sequence(_, _, _)
consume_sequence(s, p, str) ==
    IF str = <<>> THEN Ok(NoValue, p)
    ELSE IF IsOk(expect(s, p, Head(str)))
    THEN consume_sequence(s, next(p), Tail(str))
    ELSE expect(s, p, Head(str))

(* Ok(v) once the call with outcome r has succeeded, its error otherwise. *)
OkWith(r, v) == IF IsOk(r) THEN Ok(v, r.pos) ELSE r

(* char::is_ascii_whitespace: space, tab, line feed, form feed, carriage  *)
(* return.  char::is_ascii_hexdigit and char::to_digit.                    *)
is_ascii_whitespace(c) == c \in {CH_SPACE, CH_TAB, CH_LF, CH_FF, CH_CR}

is_ascii_digit(c) == c >= CH_0 /\ c <= CH_9

is_ascii_hexdigit(c) ==
    \/ is_ascii_digit(c)
    \/ (c >= CH_a /\ c <= CH_f)
    \/ (c >= CH_UPPER_A /\ c <= CH_UPPER_F)

digit_value(c) ==
    IF is_ascii_digit(c) THEN c - CH_0
    ELSE IF c >= CH_a /\ c <= CH_a + 25 THEN c - CH_a + 10
    ELSE IF c >= CH_UPPER_A /\ c <= CH_UPPER_A + 25 THEN c - CH_UPPER_A + 10
    ELSE None

to_digit(c, radix) ==
    IF digit_value(c) # None /\ digit_value(c) < radix THEN digit_value(c) ELSE None

---------------------------------------------------------------------------
(* Whitespace and comments.                                                *)
RECURSIVE skip_whitespace(_, _)
skip_whitespace(s, p) ==
    IF Ch(s, p) # None /\ is_ascii_whitespace(Ch(s, p))
    THEN skip_whitespace(s, next(p))
    ELSE p

RECURSIVE single_line_loop(_, _)
single_line_loop(s, p) ==
    IF Ch(s, p) = None THEN p
    ELSE IF Ch(s, p) = CH_LF THEN next(p)
    ELSE single_line_loop(s, next(p))

(* A skip_single_line_comment that consumes nothing.                       *)
skip_single_line_comment_in_place(s, p) == p

skip_single_line_comment(s, p) == single_line_loop(s, next(next(p)))

(* A multi_line_loop that, on a `*` not followed by `/`, also skips the    *)
(* character after the `*`.                                                *)
RECURSIVE multi_line_loop_skip_two(_, _)
multi_line_loop_skip_two(s, p) ==
    IF Ch(s, p) = None THEN Err(UnexpectedEndOfJson, p)
    ELSE IF Ch(s, p) # CH_STAR THEN multi_line_loop_skip_two(s, next(p))
    ELSE IF Ch(s, next(p)) = CH_SLASH THEN Ok(NoValue, next(next(p)))
    ELSE multi_line_loop_skip_two(s, next(next(p)))

RECURSIVE multi_line_loop(_, _)
multi_line_loop(s, p) ==
    IF Ch(s, p) = None THEN Err(UnexpectedEndOfJson, p)
    ELSE IF Ch(s, p) # CH_STAR THEN multi_line_loop(s, next(p))
    ELSE IF Ch(s, next(p)) = CH_SLASH THEN Ok(NoValue, next(next(p)))
    ELSE multi_line_loop(s, next(p))

skip_multi_line_comment(s, p) == multi_line_loop(s, next(next(p)))

(* A skip_comments loop without the arm for a `/` at end of input.         *)
RECURSIVE skip_comments_loop_no_eof_arm(_, _)
after_multi_line_comment_no_eof_arm(s, r) ==
    IF IsOk(r) THEN skip_comments_loop_no_eof_arm(s, skip_whitespace(s, r.pos)) ELSE r

skip_comments_loop_no_eof_arm(s, p) ==
    IF Ch(s, p) # CH_SLASH THEN Ok(NoValue, p)
    ELSE IF peek(s, p) = CH_SLASH
         THEN skip_comments_loop_no_eof_arm(s,
                  skip_whitespace(s, skip_single_line_comment(s, p)))
    ELSE IF peek(s, p) = CH_STAR
         THEN after_multi_line_comment_no_eof_arm(s, skip_multi_line_comment(s, p))
    ELSE Err(UnexpectedCharacter, p)

RECURSIVE skip_comments_loop(_, _)
after_multi_line_comment(s, r) ==
    IF IsOk(r) THEN skip_comments_loop(s, skip_whitespace(s, r.pos)) ELSE r

skip_comments_loop(s, p) ==
    IF Ch(s, p) # CH_SLASH THEN Ok(NoValue, p)
    ELSE IF peek(s, p) = CH_SLASH
         THEN skip_comments_loop(s, skip_whitespace(s, skip_single_line_comment(s, p)))
    ELSE IF peek(s, p) = CH_STAR
         THEN after_multi_line_comment(s, skip_multi_line_comment(s, p))
    ELSE IF peek(s, p) = None THEN Err(UnexpectedEndOfJson, p)
    ELSE Err(UnexpectedCharacter, p)

skip_comments(s, p) == skip_comments_loop(s, skip_whitespace(s, p))

---------------------------------------------------------------------------
(* null, true, false.                                                      *)
parse_null(s, p) == OkWith(consume_sequence(s, next(p), <<CH_u, CH_l, CH_l>>), Null)

parse_boolean(s, p) ==
    IF Ch(s, p) = CH_t
    THEN OkWith(consume_sequence(s, next(p), <<CH_r, CH_u, CH_e>>), Boolean(TRUE))
    ELSE OkWith(consume_sequence(s, next(p), <<CH_a, CH_l, CH_s, CH_e>>), Boolean(FALSE))

---------------------------------------------------------------------------
(* Numbers.                                                                *)
I32_MAX == 2147483647
I32_MIN == -I32_MAX - 1
U8_MAX == 255
U16_MAX == 65535

ParsedInt(n) == [ok |-> TRUE, n |-> n]
ParseIntError == [ok |-> FALSE, n |-> 0]

(* The digit loop of core's from_str_radix: acc = acc * radix + x (or - x *)
(* for a negative literal) with checked_mul and checked_add / checked_sub *)
(* against the type's range lo..hi.                                        *)
RECURSIVE from_str_radix_digits(_, _, _, _, _, _)
from_str_radix_digit(digits, radix, is_positive, acc, lo, hi, x) ==
    IF x = None THEN ParseIntError
    ELSE IF is_positive
    THEN IF acc > hi \div radix THEN ParseIntError
         ELSE IF acc * radix > hi - x THEN ParseIntError
         ELSE from_str_radix_digits(Tail(digits), radix, is_positive,
                                    acc * radix + x, lo, hi)
    ELSE IF acc < -(hi \div radix) - (IF hi % radix = radix - 1 THEN 1 ELSE 0)
         THEN ParseIntError
         ELSE IF acc * radix < lo + x THEN ParseIntError
         ELSE from_str_radix_digits(Tail(digits), radix, is_positive,
                                    acc * radix - x, lo, hi)

from_str_radix_digits(digits, radix, is_positive, acc, lo, hi) ==
    IF digits = <<>> THEN ParsedInt(acc)
    ELSE from_str_radix_digit(digits, radix, is_positive, acc, lo, hi,
                              to_digit(Head(digits), radix))

(* <integer>::from_str_radix: an optional `+` (or `-`, for a signed type) *)
(* and then at least one digit.                                            *)
from_str_radix_signed(digits, radix, is_positive, lo, hi) ==
    IF digits = <<>> THEN ParseIntError
    ELSE from_str_radix_digits(digits, radix, is_positive, 0, lo, hi)

has_sign(src, is_signed_ty) ==
    src # <<>> /\ (Head(src) = CH_PLUS \/ (Head(src) = CH_MINUS /\ is_signed_ty))

from_str_radix(src, radix, is_signed_ty, lo, hi) ==
    IF src = <<>> THEN ParseIntError
    ELSE from_str_radix_signed(IF has_sign(src, is_signed_ty) THEN Tail(src) ELSE src,
                               radix, ~(Head(src) = CH_MINUS /\ is_signed_ty), lo, hi)

i32_from_str_radix(src, radix) == from_str_radix(src, radix, TRUE, I32_MIN, I32_MAX)

i32_from_str(src) == i32_from_str_radix(src, 10)

u8_from_str_radix(src, radix) == from_str_radix(src, radix, FALSE, 0, U8_MAX)

u16_from_str_radix(src, radix) == from_str_radix(src, radix, FALSE, 0, U16_MAX)

(* f64::from_str on a text: [sign] digits [. digits] [(e|E) [sign] digits] *)
(* with at least one digit in the significand and in a present exponent.  *)
RECURSIVE eat_digits_from(_, _)
eat_digits_from(str, digits) ==
    IF str # <<>> /\ is_ascii_digit(Head(str))
    THEN eat_digits_from(Tail(str), Append(digits, Head(str)))
    ELSE [digits |-> digits, rest |-> str]

eat_digits(str) == eat_digits_from(str, <<>>)

RECURSIVE decimal_value(_, _)
decimal_value(digits, acc) ==
    IF digits = <<>> THEN acc
    ELSE decimal_value(Tail(digits), acc * 10 + (Head(digits) - CH_0))

RECURSIVE float_normal(_, _, _)
float_normal(neg, mant, exp) ==
    IF mant = 0 THEN Float("finite", neg, 0, 0)
    ELSE IF mant % 10 = 0 THEN float_normal(neg, mant \div 10, exp + 1)
    ELSE Float("finite", neg, mant, exp)

ParsedFloat(f) == [ok |-> TRUE, f |-> f]
ParseFloatError == [ok |-> FALSE, f |-> NoValue]

starts_with_sign(str) == str # <<>> /\ Head(str) \in {CH_PLUS, CH_MINUS}
starts_with_minus(str) == str # <<>> /\ Head(str) = CH_MINUS
starts_with_exponent(str) == str # <<>> /\ Head(str) \in {CH_e, CH_UPPER_E}
without_sign(str) == IF starts_with_sign(str) THEN Tail(str) ELSE str

f64_exponent(neg, integral, fractional, exp_neg, e) ==
    IF e.rest # <<>> \/ e.digits = <<>> THEN ParseFloatError
    ELSE ParsedFloat(float_normal(neg, decimal_value(integral \o fractional, 0),
                                  (IF exp_neg THEN -1 ELSE 1) * decimal_value(e.digits, 0)
                                  - Len(fractional)))

f64_parse_exp(neg, integral, fractional, rest) ==
    f64_exponent(neg, integral, fractional, starts_with_minus(rest),
                 eat_digits(without_sign(rest)))

f64_after_fraction(neg, integral, f) ==
    IF integral = <<>> /\ f.digits = <<>> THEN ParseFloatError
    ELSE IF f.rest = <<>> \/ starts_with_exponent(f.rest)
    THEN f64_parse_exp(neg, integral, f.digits,
                       IF f.rest = <<>> THEN <<CH_0>> ELSE Tail(f.rest))
    ELSE ParseFloatError

f64_after_integral(neg, i) ==
    IF i.rest = <<>>
    THEN IF i.digits = <<>> THEN ParseFloatError
         ELSE f64_after_fraction(neg, i.digits, [digits |-> <<>>, rest |-> <<>>])
    ELSE IF starts_with_exponent(i.rest)
    THEN IF i.digits = <<>> THEN ParseFloatError
         ELSE f64_after_fraction(neg, i.digits, [digits |-> <<>>, rest |-> i.rest])
    ELSE IF Head(i.rest) = CH_DOT
    THEN f64_after_fraction(neg, i.digits, eat_digits(Tail(i.rest)))
    ELSE ParseFloatError

f64_from_str(src) == f64_after_integral(starts_with_minus(src), eat_digits(without_sign(src)))

(* The `sign` of parse_number is None or the sign character; the literal  *)
(* routines start their buffer with it.                                    *)
sign_buf(sign) == IF sign = None THEN <<>> ELSE <<sign>>

integer_result(i, p) == IF i.ok THEN Ok(Integer(i.n), p) ELSE Err(UnparseableNumber, p)

float_result(f, p) == IF f.ok THEN Ok(f.f, p) ELSE Err(UnparseableNumber, p)

(* A digit loop that takes decimal digits only.                            *)
RECURSIVE hex_digits_loop_decimal_only(_, _, _)
hex_digits_loop_decimal_only(s, p, buf) ==
    IF Ch(s, p) # None /\ is_ascii_digit(Ch(s, p))
    THEN hex_digits_loop_decimal_only(s, next(p), Append(buf, Ch(s, p)))
    ELSE [buf |-> buf, pos |-> p]

RECURSIVE hex_digits_loop(_, _, _)
hex_digits_loop(s, p, buf) ==
    IF Ch(s, p) # None /\ is_ascii_hexdigit(Ch(s, p))
    THEN hex_digits_loop(s, next(p), Append(buf, Ch(s, p)))
    ELSE [buf |-> buf, pos |-> p]

hex_integer_of(l) == integer_result(i32_from_str_radix(l.buf, 16), l.pos)

parse_hex_integer_literal(s, p, sign) ==
    hex_integer_of(hex_digits_loop(s, next(next(p)), sign_buf(sign)))

(* A scan that stops at a `+` or `-`.                                      *)
RECURSIVE decimal_loop_no_inner_sign(_, _, _, _)
decimal_loop_no_inner_sign(s, p, buf, is_float) ==
    IF Ch(s, p) # None /\ is_ascii_digit(Ch(s, p))
    THEN decimal_loop_no_inner_sign(s, next(p), Append(buf, Ch(s, p)), is_float)
    ELSE IF Ch(s, p) \in {CH_DOT, CH_e, CH_UPPER_E}
    THEN decimal_loop_no_inner_sign(s, next(p), Append(buf, Ch(s, p)), TRUE)
    ELSE [buf |-> buf, pos |-> p, is_float |-> is_float]

RECURSIVE decimal_loop(_, _, _, _)
decimal_loop(s, p, buf, is_float) ==
    IF Ch(s, p) # None /\ (is_ascii_digit(Ch(s, p)) \/ Ch(s, p) \in {CH_PLUS, CH_MINUS})
    THEN decimal_loop(s, next(p), Append(buf, Ch(s, p)), is_float)
    ELSE IF Ch(s, p) \in {CH_DOT, CH_e, CH_UPPER_E}
    THEN decimal_loop(s, next(p), Append(buf, Ch(s, p)), TRUE)
    ELSE [buf |-> buf, pos |-> p, is_float |-> is_float]

decimal_of(l) ==
    IF l.is_float THEN float_result(f64_from_str(l.buf), l.pos)
    ELSE integer_result(i32_from_str(l.buf), l.pos)

parse_decimal_literal(s, p, sign) == decimal_of(decimal_loop(s, p, sign_buf(sign), FALSE))

infinity_of(r, sign) ==
    IF ~IsOk(r) THEN r
    ELSE IF sign = CH_MINUS THEN Ok(NEG_INFINITY, r.pos)
    ELSE Ok(INFINITY, r.pos)

parse_infinity(s, p, sign) ==
    infinity_of(consume_sequence(s, next(p), <<CH_n, CH_f, CH_i, CH_n, CH_i, CH_t, CH_y>>),
                sign)

parse_nan(s, p) == OkWith(consume_sequence(s, next(p), <<CH_a, CH_UPPER_N>>), NAN)

(* parse_number: the sign, the cursor behind it, and the dispatch on the   *)
(* character found there.                                                  *)
number_sign(s, p) == IF Ch(s, p) \in {CH_PLUS, CH_MINUS} THEN Ch(s, p) ELSE None

after_sign(s, p) == IF Ch(s, p) \in {CH_PLUS, CH_MINUS} THEN next(p) ELSE p

(* A dispatch without the arm for a `0` followed by a digit.               *)
number_literal_no_zero_rule(s, q, sign) ==
    IF Ch(s, q) = None THEN Err(UnexpectedEndOfJson, q)
    ELSE IF Ch(s, q) = CH_0 /\ peek(s, q) \in {CH_x, CH_UPPER_X}
    THEN parse_hex_integer_literal(s, q, sign)
    ELSE IF Ch(s, q) = CH_UPPER_I THEN parse_infinity(s, q, sign)
    ELSE IF Ch(s, q) = CH_UPPER_N THEN parse_nan(s, q)
    ELSE parse_decimal_literal(s, q, sign)

number_literal(s, q, sign) ==
    IF Ch(s, q) = None THEN Err(UnexpectedEndOfJson, q)
    ELSE IF Ch(s, q) = CH_0 /\ peek(s, q) # None /\ is_ascii_digit(peek(s, q))
    THEN Err(UnparseableNumber, q)
    ELSE IF Ch(s, q) = CH_0 /\ peek(s, q) \in {CH_x, CH_UPPER_X}
    THEN parse_hex_integer_literal(s, q, sign)
    ELSE IF Ch(s, q) = CH_UPPER_I THEN parse_infinity(s, q, sign)
    ELSE IF Ch(s, q) = CH_UPPER_N THEN parse_nan(s, q)
    ELSE parse_decimal_literal(s, q, sign)

parse_number(s, p) == number_literal(s, after_sign(s, p), number_sign(s, p))

---------------------------------------------------------------------------
(* Strings.                                                                *)
SURROGATE_HIGH_FIRST == 55296
SURROGATE_HIGH_LAST == 56319
SURROGATE_LOW_FIRST == 56320
SURROGATE_LOW_LAST == 57343
SUPPLEMENTARY_FIRST == 65536
SURROGATE_SPAN == 1024
ASCII_LAST == 127

RECURSIVE hex_digits_take(_, _, _, _)
hex_digits_take(s, p, n, buf) ==
    IF n = 0 THEN Ok(buf, p)
    ELSE IF Ch(s, p) = None THEN Err(UnexpectedEndOfJson, p)
    ELSE hex_digits_take(s, next(p), n - 1, Append(buf, Ch(s, p)))

code_unit_result(n, p) == IF n.ok THEN Ok(n.n, p) ELSE Err(UnexpectedCharacter, p)

two_hex_digits_of(b) ==
    IF ~IsOk(b) THEN b ELSE code_unit_result(u8_from_str_radix(b.val, 16), b.pos)

parse_two_hex_digits(s, p) == two_hex_digits_of(hex_digits_take(s, p, 2, <<>>))

four_hex_digits_of(b) ==
    IF ~IsOk(b) THEN b ELSE code_unit_result(u16_from_str_radix(b.val, 16), b.pos)

parse_four_hex_digits(s, p) == four_hex_digits_of(hex_digits_take(s, p, 4, <<>>))

(* String::from_utf8 on one byte: valid exactly for an ASCII byte.         *)
from_utf8(vec) ==
    IF \A k \in 1..Len(vec) : vec[k] <= ASCII_LAST
    THEN [ok |-> TRUE, s |-> vec]
    ELSE [ok |-> FALSE, s |-> <<>>]

(* String::from_utf16: a unit outside the surrogate range is a scalar, a  *)
(* high surrogate must be followed by a low one and the two combine, and  *)
(* anything else is an error.                                              *)
is_surrogate(u) == u >= SURROGATE_HIGH_FIRST /\ u <= SURROGATE_LOW_LAST

is_high_surrogate(u) == u >= SURROGATE_HIGH_FIRST /\ u <= SURROGATE_HIGH_LAST

is_low_surrogate(u) == u >= SURROGATE_LOW_FIRST /\ u <= SURROGATE_LOW_LAST

surrogate_pair(u, u2) ==
    SUPPLEMENTARY_FIRST + (u - SURROGATE_HIGH_FIRST) * SURROGATE_SPAN
    + (u2 - SURROGATE_LOW_FIRST)

RECURSIVE from_utf16_from(_, _)
from_utf16_from(vec, str) ==
    IF vec = <<>> THEN [ok |-> TRUE, s |-> str]
    ELSE IF ~is_surrogate(Head(vec))
    THEN from_utf16_from(Tail(vec), Append(str, Head(vec)))
    ELSE IF is_high_surrogate(Head(vec)) /\ Len(vec) >= 2 /\ is_low_surrogate(vec[2])
    THEN from_utf16_from(Tail(Tail(vec)), Append(str, surrogate_pair(vec[1], vec[2])))
    ELSE [ok |-> FALSE, s |-> <<>>]

from_utf16(vec) == from_utf16_from(vec, <<>>)

string_result(u, p) == IF u.ok THEN Ok(u.s, p) ELSE Err(UnexpectedCharacter, p)

hex_escape_of(n) == IF ~IsOk(n) THEN n ELSE string_result(from_utf8(<<n.val>>), n.pos)

parse_hex_escape_sequence(s, p) == hex_escape_of(parse_two_hex_digits(s, next(next(p))))

unicode_escape_pair(first, n2) ==
    IF ~IsOk(n2) THEN n2 ELSE string_result(from_utf16(<<first, n2.val>>), n2.pos)

unicode_escape_second(s, first, c) ==
    IF ~IsOk(c) THEN c ELSE unicode_escape_pair(first, parse_four_hex_digits(s, c.pos))

(* An escape that never reads a second unit.                               *)
unicode_escape_of_single_unit(s, n1) ==
    IF ~IsOk(n1) THEN n1 ELSE string_result(from_utf16(<<n1.val>>), n1.pos)

unicode_escape_of(s, n1) ==
    IF ~IsOk(n1) THEN n1
    ELSE IF SURROGATE_HIGH_FIRST <= n1.val /\ n1.val <= SURROGATE_HIGH_LAST
    THEN unicode_escape_second(s, n1.val,
                               consume_sequence(s, n1.pos, <<CH_BACKSLASH, CH_u>>))
    ELSE string_result(from_utf16(<<n1.val>>), n1.pos)

parse_unicode_escape_sequence(s, p) ==
    unicode_escape_of(s, parse_four_hex_digits(s, next(next(p))))

(* The single-character escapes: the character after the backslash and    *)
(* the character it stands for.                                            *)
CharacterEscapes ==
    {CH_SQUOTE, CH_DQUOTE, CH_BACKSLASH, CH_b, CH_f, CH_n, CH_r, CH_t, CH_v, CH_0}

parse_character_escape_sequence(c) ==
    CASE c = CH_SQUOTE -> CH_SQUOTE
      [] c = CH_DQUOTE -> CH_DQUOTE
      [] c = CH_BACKSLASH -> CH_BACKSLASH
      [] c = CH_b -> CH_BS
      [] c = CH_f -> CH_FF
      [] c = CH_n -> CH_LF
      [] c = CH_r -> CH_CR
      [] c = CH_t -> CH_TAB
      [] c = CH_v -> CH_VT
      [] c = CH_0 -> CH_NUL

(* A continuation that leaves the line feed of a CR LF pair in place.      *)
skip_line_continuation_no_pair(s, p, c) == next(next(p))

(* The cursor after a line continuation: backslash, line terminator, and  *)
(* the line feed of a CR LF pair.                                          *)
skip_line_continuation(s, p, c) ==
    IF c = CH_CR /\ Ch(s, next(next(p))) = CH_LF
    THEN next(next(next(p)))
    ELSE next(next(p))

(* A loop that ends the string at either quote character.                 *)
RECURSIVE string_loop_any_quote(_, _, _, _)
string_loop_any_quote(s, p, mark, str) ==
    IF Ch(s, p) = None THEN Err(UnexpectedEndOfJson, p)
    ELSE IF Ch(s, p) \in {CH_LF, CH_CR} THEN Err(UnexpectedCharacter, p)
    ELSE IF Ch(s, p) = CH_BACKSLASH
    THEN IF peek(s, p) = None THEN Err(UnexpectedEndOfJson, p)
         ELSE string_loop_any_quote(s, next(next(p)), mark, Append(str, peek(s, p)))
    ELSE IF Ch(s, p) \in {CH_DQUOTE, CH_SQUOTE} THEN Ok(String(str), next(p))
    ELSE string_loop_any_quote(s, next(p), mark, Append(str, Ch(s, p)))

RECURSIVE string_loop(_, _, _, _)
string_after_escape(s, mark, str, r) ==
    IF IsOk(r) THEN string_loop(s, r.pos, mark, str \o r.val) ELSE r

string_loop(s, p, mark, str) ==
    IF Ch(s, p) = None THEN Err(UnexpectedEndOfJson, p)
    ELSE IF Ch(s, p) \in {CH_LF, CH_CR} THEN Err(UnexpectedCharacter, p)
    ELSE IF Ch(s, p) = CH_BACKSLASH
    THEN IF peek(s, p) = None THEN Err(UnexpectedEndOfJson, p)
         ELSE IF peek(s, p) = CH_x
         THEN string_after_escape(s, mark, str, parse_hex_escape_sequence(s, p))
         ELSE IF peek(s, p) = CH_u
         THEN string_after_escape(s, mark, str, parse_unicode_escape_sequence(s, p))
         ELSE IF peek(s, p) \in CharacterEscapes
         THEN string_loop(s, next(next(p)), mark,
                          Append(str, parse_character_escape_sequence(peek(s, p))))
         ELSE IF peek(s, p) \in {CH_LF, CH_CR, CH_LS, CH_PS}
         THEN string_loop(s, skip_line_continuation(s, p, peek(s, p)), mark, str)
         ELSE string_loop(s, next(next(p)), mark, Append(str, peek(s, p)))
    ELSE IF Ch(s, p) = mark THEN Ok(String(str), next(p))
    ELSE string_loop(s, next(p), mark, Append(str, Ch(s, p)))

parse_string(s, p) == string_loop(s, next(p), Ch(s, p), <<>>)

---------------------------------------------------------------------------
(* Values, arrays and objects.  The steps of one turn of the array and    *)
(* object loops are listed last step first.                                *)
RECURSIVE parse_value(_, _)
RECURSIVE array_loop(_, _, _)
RECURSIVE array_after_element(_, _, _)
RECURSIVE object_loop(_, _, _)

(* After a comma, an array loop that wants an element.                     *)
array_after_comma_no_trailing(s, v, c2) ==
    IF ~IsOk(c2) THEN c2 ELSE array_after_element(s, v, parse_value(s, c2.pos))

array_after_comma(s, v, c2) == IF ~IsOk(c2) THEN c2 ELSE array_loop(s, c2.pos, v)

array_after_skip(s, v, c1) ==
    IF ~IsOk(c1) THEN c1
    ELSE IF Ch(s, c1.pos) = None THEN Err(UnexpectedEndOfJson, c1.pos)
    ELSE IF Ch(s, c1.pos) = CH_RBRACKET THEN Ok(Array(v), next(c1.pos))
    ELSE IF Ch(s, c1.pos) = CH_COMMA
    THEN array_after_comma(s, v, skip_comments(s, next(c1.pos)))
    ELSE Err(UnexpectedCharacter, c1.pos)

array_after_element(s, v, e) ==
    IF ~IsOk(e) THEN e ELSE array_after_skip(s, Append(v, e.val), skip_comments(s, e.pos))

(* An array loop that reports the end of input as an unexpected character. *)
array_loop_end_as_character(s, p, v) ==
    IF Ch(s, p) = None THEN Err(UnexpectedCharacter, p)
    ELSE IF Ch(s, p) = CH_RBRACKET THEN Ok(Array(v), next(p))
    ELSE array_after_element(s, v, parse_value(s, p))

array_loop(s, p, v) ==
    IF Ch(s, p) = None THEN Err(UnexpectedEndOfJson, p)
    ELSE IF Ch(s, p) = CH_RBRACKET THEN Ok(Array(v), next(p))
    ELSE array_after_element(s, v, parse_value(s, p))

array_begin(s, c0) == IF ~IsOk(c0) THEN c0 ELSE array_loop(s, c0.pos, <<>>)

parse_array(s, p) == array_begin(s, skip_comments(s, next(p)))

object_after_comma(s, m, c4) == IF ~IsOk(c4) THEN c4 ELSE object_loop(s, c4.pos, m)

object_after_member(s, m, c3) ==
    IF ~IsOk(c3) THEN c3
    ELSE IF Ch(s, c3.pos) = None THEN Err(UnexpectedEndOfJson, c3.pos)
    ELSE IF Ch(s, c3.pos) = CH_RBRACE THEN Ok(Object(m), next(c3.pos))
    ELSE IF Ch(s, c3.pos) = CH_COMMA
    THEN object_after_comma(s, m, skip_comments(s, next(c3.pos)))
    ELSE Err(UnexpectedCharacter, c3.pos)

(* A HashMap::insert that leaves the value of a key already present.       *)
object_insert_keep_first(s, m, key, e) ==
    IF ~IsOk(e) THEN e
    ELSE object_after_member(s, IF key \in DOMAIN m THEN m ELSE HashMapInsert(m, key, e.val),
                             skip_comments(s, e.pos))

object_insert(s, m, key, e) ==
    IF ~IsOk(e) THEN e
    ELSE object_after_member(s, HashMapInsert(m, key, e.val), skip_comments(s, e.pos))

object_value(s, m, key, c2) ==
    IF ~IsOk(c2) THEN c2 ELSE object_insert(s, m, key, parse_value(s, c2.pos))

object_after_colon(s, m, key, co) ==
    IF ~IsOk(co) THEN co ELSE object_value(s, m, key, skip_comments(s, co.pos))

object_colon(s, m, key, c1) ==
    IF ~IsOk(c1) THEN c1 ELSE object_after_colon(s, m, key, consume(s, c1.pos, CH_COLON))

object_after_key(s, m, key) ==
    IF ~IsOk(key) THEN key ELSE object_colon(s, m, key.val, skip_comments(s, key.pos))

(* A key that takes the value parsed there whatever its kind.              *)
object_key_any_value(k) ==
    IF ~IsOk(k) THEN k
    ELSE IF k.val.t = "String" THEN Ok(k.val.s, k.pos)
    ELSE Ok(<<>>, k.pos)

(* The key of a member: the value parsed there, which must be a String.   *)
object_key(k) ==
    IF ~IsOk(k) THEN k
    ELSE IF k.val.t = "String" THEN Ok(k.val.s, k.pos)
    ELSE Err(UnexpectedCharacter, k.pos)

object_loop(s, p, m) ==
    IF Ch(s, p) = None THEN Err(UnexpectedEndOfJson, p)
    ELSE IF Ch(s, p) = CH_RBRACE THEN Ok(Object(m), next(p))
    ELSE object_after_key(s, m, object_key(parse_value(s, p)))

object_begin(s, c0) == IF ~IsOk(c0) THEN c0 ELSE object_loop(s, c0.pos, HashMapNew)

parse_object(s, p) == object_begin(s, skip_comments(s, next(p)))

parse_value(s, p) ==
    IF Ch(s, p) = None THEN Err(UnexpectedEndOfJson, p)
    ELSE IF Ch(s, p) = CH_n THEN parse_null(s, p)
    ELSE IF Ch(s, p) \in {CH_t, CH_f} THEN parse_boolean(s, p)
    ELSE IF is_ascii_digit(Ch(s, p))
            \/ Ch(s, p) \in {CH_PLUS, CH_MINUS, CH_DOT, CH_UPPER_I, CH_UPPER_N}
    THEN parse_number(s, p)
    ELSE IF Ch(s, p) \in {CH_DQUOTE, CH_SQUOTE} THEN parse_string(s, p)
    ELSE IF Ch(s, p) = CH_LBRACKET THEN parse_array(s, p)
    ELSE IF Ch(s, p) = CH_LBRACE THEN parse_object(s, p)
    ELSE Err(UnexpectedCharacter, p)

---------------------------------------------------------------------------
(* The top-level entry: position the parser on the first character, skip  *)
(* comments, parse one value, skip comments, and require end of input.    *)
(* The outcome of a parse is the error kind (NoError for Ok) and the      *)
(* value.                                                                  *)
Outcome(e, v) == [err |-> e, val |-> v]
Pending == Outcome("Pending", NoValue)

parse_end(s, v, c2) ==
    IF ~IsOk(c2) THEN Outcome(c2.err, NoValue)
    ELSE IF Ch(s, c2.pos) # None THEN Outcome(UnexpectedCharacter, NoValue)
    ELSE Outcome(NoError, v)

parse_trail(s, v) ==
    IF ~IsOk(v) THEN Outcome(v.err, NoValue)
    ELSE parse_end(s, v.val, skip_comments(s, v.pos))

parse_lead(s, c1) ==
    IF ~IsOk(c1) THEN Outcome(c1.err, NoValue)
    ELSE parse_trail(s, parse_value(s, c1.pos))

parse(s) == parse_lead(s, skip_comments(s, next(0)))

(* The same entry as the steps of one call, over the state variables.  A  *)
(* step that fails ends the call with its error.                           *)
Step(r, then) ==
    /\ pos' = r.pos
    /\ pc' = IF IsOk(r) THEN then ELSE "done"
    /\ result' = IF IsOk(r) THEN result ELSE Outcome(r.err, NoValue)

ValueStep(r) ==
    /\ val' = r.val
    /\ Step(r, "trail")

Start ==
    /\ pc = "new"
    /\ pos' = next(pos)
    /\ pc' = "lead"
    /\ UNCHANGED <<doc, input, val, result, path>>

SkipLeading ==
    /\ pc = "lead"
    /\ Step(skip_comments(input, pos), "value")
    /\ UNCHANGED <<doc, input, val, path>>

ParseValue ==
    /\ pc = "value"
    /\ ValueStep(parse_value(input, pos))
    /\ UNCHANGED <<doc, input, path>>

SkipTrailing ==
    /\ pc = "trail"
    /\ Step(skip_comments(input, pos), "end")
    /\ UNCHANGED <<doc, input, val, path>>

Finish ==
    /\ pc = "end"
    /\ pc' = "done"
    /\ result' = IF Ch(input, pos) # None
                 THEN Outcome(UnexpectedCharacter, NoValue)
                 ELSE Outcome(NoError, val)
    /\ UNCHANGED <<doc, input, pos, val, path>>

Next == Start \/ SkipLeading \/ ParseValue \/ SkipTrailing \/ Finish

(* A document is a sequence of tokens, each a text; Flatten is its text.  *)
RECURSIVE Flatten(_)
Flatten(toks) == IF toks = <<>> THEN <<>> ELSE Head(toks) \o Flatten(Tail(toks))

SeqsUpTo(S, n) == UNION {[1..k -> S] : k \in 0..n}

(* The state of a fresh call of parse on the text of document d.           *)
Fresh(d, text) ==
    /\ doc = d
    /\ input = text
    /\ pos = 0
    /\ pc = "new"
    /\ val = NoValue
    /\ result = Pending
    /\ path = <<>>

---------------------------------------------------------------------------
(* Texts the documents below are made of.                                  *)
T_SPACE == <<CH_SPACE>>
T_LINE_COMMENT == <<CH_SLASH, CH_SLASH, CH_x, CH_LF>>
T_BLOCK_COMMENT == <<CH_SLASH, CH_STAR, CH_STAR, CH_STAR, CH_SLASH>>
T_SLASH == <<CH_SLASH>>
T_OPEN_COMMENT == <<CH_SLASH, CH_STAR>>
T_ONE == <<CH_0 + 1>>
T_TWO == <<CH_0 + 2>>
T_NULL == <<CH_n, CH_u, CH_l, CH_l>>
T_TRUE == <<CH_t, CH_r, CH_u, CH_e>>
T_X == <<CH_x>>
T_LBRACKET == <<CH_LBRACKET>>
T_RBRACKET == <<CH_RBRACKET>>
T_LBRACE == <<CH_LBRACE>>
T_RBRACE == <<CH_RBRACE>>
T_COMMA == <<CH_COMMA>>
T_COLON == <<CH_COLON>>
T_ARRAY_ONE == <<CH_LBRACKET, CH_0 + 1, CH_RBRACKET>>
T_STRING_A == <<CH_DQUOTE, CH_a, CH_DQUOTE>>
T_EXPONENT == <<CH_0 + 1, CH_e, CH_PLUS, CH_0 + 5>>
T_NEG_HEX == <<CH_MINUS, CH_0, CH_x, CH_0 + 1>>
T_FRACTION == <<CH_DOT, CH_0 + 5>>
T_NAN == <<CH_UPPER_N, CH_a, CH_UPPER_N>>
T_EMPTY_OBJECT == <<CH_LBRACE, CH_RBRACE>>
T_IDENT_A == <<CH_a>>
T_IDENT_FOO == <<CH_f, CH_n + 1, CH_n + 1>>
T_DOUBLE_ZERO == <<CH_0, CH_0>>
T_OPEN_STRING == <<CH_DQUOTE, CH_a>>
T_STRING_HEX == <<CH_SQUOTE, CH_BACKSLASH, CH_x, CH_0 + 4, CH_0 + 1, CH_SQUOTE>>

(* Whitespace, a line comment ended by its newline, a closed block         *)
(* comment.                                                                *)
NoiseToks == {T_SPACE, T_LINE_COMMENT, T_BLOCK_COMMENT}

---------------------------------------------------------------------------
(* C1.  Documents for the top-level entry: noise, one value, noise, and   *)
(* then nothing or something that is neither whitespace nor a comment.    *)
MaxLead == 1
MaxTrail == 2

TopValues == {T_ONE, T_NULL, T_ARRAY_ONE, T_STRING_A}

TopValueOf(tok) ==
    CASE tok = T_ONE -> Integer(1)
      [] tok = T_NULL -> Null
      [] tok = T_ARRAY_ONE -> Array(<<Integer(1)>>)
      [] tok = T_STRING_A -> String(<<CH_a>>)

(* What may remain: a first text that no comment or whitespace skip        *)
(* consumes, alone or followed by a text that closes no comment.          *)
RemainFirst == {T_X, T_ONE, T_RBRACKET, T_COMMA, T_SLASH, T_OPEN_COMMENT}
RemainSecond == {T_X, T_SPACE, T_RBRACKET, T_TWO, T_COMMA}
Remains == {<<>>} \cup {<<j>> : j \in RemainFirst}
                  \cup {<<j, k>> : j \in RemainFirst, k \in RemainSecond}

TopDocs ==
    {d \in [lead : SeqsUpTo(NoiseToks, MaxLead), value : TopValues,
            trail : SeqsUpTo(NoiseToks, MaxTrail), rest : Remains] :
        \* a digit directly after the number would be part of the number
        ~(d.value = T_ONE /\ d.trail = <<>> /\ d.rest # <<>> /\ Head(d.rest) = T_ONE)}

TopText(d) == Flatten(d.lead) \o d.value \o Flatten(d.trail) \o Flatten(d.rest)

InitTop == \E d \in TopDocs : Fresh(d, TopText(d))

SpecTop == InitTop /\ [][Next]_vars

(* The input ends inside a comment it opened after the value: a `/` as    *)
(* the last character, or a block comment that is never closed.           *)
EndsInComment(d) ==
    d.rest # <<>> /\ (Head(d.rest) = T_OPEN_COMMENT \/ d.rest = <<T_SLASH>>)

C1_Expected(d) ==
    IF d.rest = <<>> THEN Outcome(NoError, TopValueOf(d.value))
    ELSE IF EndsInComment(d) THEN Outcome(UnexpectedEndOfJson, NoValue)
    ELSE Outcome(UnexpectedCharacter, NoValue)

(* C1 (as amended): parse returns the one value exactly when nothing but  *)
(* whitespace and comments surrounds it, and then the input is exhausted; *)
(* when a character remains after the trailing skip, parse fails with     *)
(* UnexpectedCharacter and returns no value; when the trailing skip       *)
(* itself fails because the input ends in a `/` or in an unclosed block   *)
(* comment, parse fails with UnexpectedEndOfJson.                         *)
C1_ExactlyOneValue ==
    pc = "done" =>
        /\ result = C1_Expected(doc)
        /\ (result.err = NoError => pos > Len(input))

(* `[1]]`: the value is parsed, a `]` remains, UnexpectedCharacter.       *)
C1_Witness ==
    /\ pc = "done"
    /\ doc.value = T_ARRAY_ONE
    /\ doc.rest = <<T_RBRACKET>>
    /\ result = Outcome(UnexpectedCharacter, NoValue)

(* C1 as stated: whatever remains after the value and the noise behind    *)
(* it, `1 /` included, parse fails with UnexpectedCharacter.              *)
C1_Original ==
    pc = "done" =>
        result = IF doc.rest = <<>> THEN Outcome(NoError, TopValueOf(doc.value))
                 ELSE Outcome(UnexpectedCharacter, NoValue)

---------------------------------------------------------------------------
(* C2.  Accepted documents made of structural delimiters and scalars,     *)
(* with the same run of noise put into some of the gaps the claim allows: *)
(* before the document, after it, and next to a structural delimiter.     *)
MaxCore == 5
MaxGaps == 2
MaxRun == 2

StructToks == {T_LBRACKET, T_RBRACKET, T_LBRACE, T_RBRACE, T_COMMA, T_COLON}
CoreToks == StructToks \cup {T_ONE, T_STRING_A, T_NULL}

AcceptedCores == {c \in SeqsUpTo(CoreToks, MaxCore) : parse(Flatten(c)).err = NoError}

NoiseRuns == SeqsUpTo(NoiseToks, MaxRun) \ {<<>>}

(* Gap g lies after token g (gap 0 before the first token).                *)
LegalGap(core, g) ==
    \/ g = 0
    \/ g = Len(core)
    \/ core[g] \in StructToks
    \/ core[g + 1] \in StructToks

NoiseDocs ==
    {d \in [core : AcceptedCores, gaps : SUBSET (0..MaxCore), run : NoiseRuns] :
        /\ d.gaps # {}
        /\ Cardinality(d.gaps) <= MaxGaps
        /\ \A g \in d.gaps : g <= Len(d.core) /\ LegalGap(d.core, g)}

RECURSIVE Weave(_, _, _, _)
Weave(core, gaps, run, g) ==
    (IF g \in gaps THEN Flatten(run) ELSE <<>>)
    \o (IF g < Len(core) THEN core[g + 1] \o Weave(core, gaps, run, g + 1) ELSE <<>>)

NoiseText(d) == Weave(d.core, d.gaps, d.run, 0)

InitNoise == \E d \in NoiseDocs : Fresh(d, NoiseText(d))

SpecNoise == InitNoise /\ [][Next]_vars

(* C2: an accepted document with whitespace, line comments and closed     *)
(* block comments inserted before it, after it or next to a structural    *)
(* delimiter parses to the result of the document without them.           *)
C2_NoiseTransparent ==
    pc = "done" =>
        /\ result.err = NoError
        /\ result = parse(Flatten(doc.core))

(* `{"a":1}` with a comment after `{` and after `:`.                      *)
C2_Witness ==
    /\ pc = "done"
    /\ doc.core = <<T_LBRACE, T_STRING_A, T_COLON, T_ONE, T_RBRACE>>
    /\ doc.gaps = {1, 3}
    /\ doc.run = <<T_BLOCK_COMMENT>>
    /\ result = Outcome(NoError, Object([k \in {<<CH_a>>} |-> Integer(1)]))

---------------------------------------------------------------------------
(* C3.  An accepted document with one more comma, padded on either side   *)
(* with noise or nothing, put before its token `at`.                       *)
Pads == {<<>>} \cup NoiseToks

(* The comma is a trailing comma: it stands before a closing delimiter    *)
(* and behind an element.  Or it follows no element: it stands first, or  *)
(* behind an opening delimiter or another comma.                           *)
IsTrailing(core, at) ==
    /\ core[at] \in {T_RBRACKET, T_RBRACE}
    /\ at > 1
    /\ core[at - 1] \notin {T_LBRACKET, T_LBRACE, T_COMMA}

FollowsNoElement(core, at) ==
    at = 1 \/ core[at - 1] \in {T_LBRACKET, T_LBRACE, T_COMMA}

CommaDocs ==
    {d \in [core : AcceptedCores, at : 1..MaxCore, pre : Pads, post : Pads] :
        /\ d.at <= Len(d.core)
        /\ (IsTrailing(d.core, d.at) \/ FollowsNoElement(d.core, d.at))}

CommaText(d) ==
    Flatten(SubSeq(d.core, 1, d.at - 1)) \o d.pre \o T_COMMA \o d.post
    \o Flatten(SubSeq(d.core, d.at, Len(d.core)))

InitComma == \E d \in CommaDocs : Fresh(d, CommaText(d))

SpecComma == InitComma /\ [][Next]_vars

(* C3: a comma, with or without noise around it, added behind the last    *)
(* element of an array or object and before its closing delimiter leaves  *)
(* the parsed value unchanged; a comma that follows no element is         *)
(* rejected with UnexpectedCharacter.                                      *)
C3_TrailingComma ==
    pc = "done" =>
        /\ IsTrailing(doc.core, doc.at) =>
               (result.err = NoError /\ result = parse(Flatten(doc.core)))
        /\ FollowsNoElement(doc.core, doc.at) =>
               result = Outcome(UnexpectedCharacter, NoValue)

(* `{"a":1 ,/***/}` parses to the object of `{"a":1}`.                    *)
C3_Witness ==
    /\ pc = "done"
    /\ doc.core = <<T_LBRACE, T_STRING_A, T_COLON, T_ONE, T_RBRACE>>
    /\ doc.at = 5
    /\ doc.pre = T_SPACE
    /\ doc.post = T_BLOCK_COMMENT
    /\ result = Outcome(NoError, Object([k \in {<<CH_a>>} |-> Integer(1)]))

---------------------------------------------------------------------------
(* C4.  An array of elements, or an object of members "a": element, with  *)
(* the same noise or nothing behind every token, cut after `cut`          *)
(* characters.  A cut before the last character leaves the array or       *)
(* object unclosed.                                                        *)
MaxElems == 2

NumberToks == {T_ONE, T_EXPONENT, T_NEG_HEX, T_FRACTION, T_NAN}
CutElems == NumberToks \cup {T_NULL, T_STRING_A, T_STRING_HEX, T_ARRAY_ONE}

RECURSIVE ArrayToks(_, _)
ArrayToks(elems, gap) ==
    IF elems = <<>> THEN <<T_RBRACKET>>
    ELSE <<Head(elems), gap>>
         \o (IF Tail(elems) = <<>> THEN <<>> ELSE <<T_COMMA, gap>>)
         \o ArrayToks(Tail(elems), gap)

RECURSIVE ObjectToks(_, _)
ObjectToks(elems, gap) ==
    IF elems = <<>> THEN <<T_RBRACE>>
    ELSE <<T_STRING_A, gap, T_COLON, gap, Head(elems), gap>>
         \o (IF Tail(elems) = <<>> THEN <<>> ELSE <<T_COMMA, gap>>)
         \o ObjectToks(Tail(elems), gap)

CutToks(kind, elems, gap) ==
    IF kind = "array" THEN <<T_LBRACKET, gap>> \o ArrayToks(elems, gap)
    ELSE <<T_LBRACE, gap>> \o ObjectToks(elems, gap)

CutShapes ==
    [kind : {"array", "object"}, elems : SeqsUpTo(CutElems, MaxElems) \ {<<>>}, gap : Pads]

CutFull(d) == Flatten(CutToks(d.kind, d.elems, d.gap))

InitCut ==
    \E sh \in CutShapes :
        \E cut \in 1..Len(CutFull(sh)) :
            Fresh([kind |-> sh.kind, elems |-> sh.elems, gap |-> sh.gap, cut |-> cut],
                  SubSeq(CutFull(sh), 1, cut))

SpecCut == InitCut /\ [][Next]_vars

(* The token in which a prefix of k characters ends, and the part of the  *)
(* token that the prefix keeps.                                            *)
RECURSIVE CutPiece(_, _)
CutPiece(toks, k) ==
    IF k <= Len(Head(toks))
    THEN [tok |-> Head(toks), part |-> SubSeq(Head(toks), 1, k)]
    ELSE CutPiece(Tail(toks), k - Len(Head(toks)))

(* A number literal cut short so that what is left is no number: it ends  *)
(* in an exponent marker or an exponent's sign, in the `x` of a hex       *)
(* prefix, or in a `.` with no digit before it.                           *)
BrokenNumber(part) ==
    \/ part[Len(part)] \in {CH_e, CH_UPPER_E, CH_x, CH_UPPER_X}
    \/ (Len(part) >= 2 /\ part[Len(part)] \in {CH_PLUS, CH_MINUS})
    \/ (part[Len(part)] = CH_DOT /\ \A k \in 1..Len(part) : ~is_ascii_digit(part[k]))

EndsInBrokenNumber(d) ==
    /\ CutPiece(CutToks(d.kind, d.elems, d.gap), d.cut).tok \in NumberToks \ {T_NAN}
    /\ BrokenNumber(CutPiece(CutToks(d.kind, d.elems, d.gap), d.cut).part)

IsCutShort(d) == d.cut < Len(CutFull(d))

(* C4 (as amended): a proper prefix of an accepted document that ends     *)
(* while an array or object is unclosed fails with UnexpectedEndOfJson,   *)
(* unless it ends inside a number literal and what is left of the literal *)
(* is no number (`[1e`, `[1e+`, `[-0x`, `[.`): then it fails with         *)
(* UnparseableNumber.  The whole document is accepted.                    *)
C4_PrematureEnd ==
    pc = "done" =>
        /\ ~IsCutShort(doc) => result.err = NoError
        /\ IsCutShort(doc) =>
               result = IF EndsInBrokenNumber(doc) THEN Outcome(UnparseableNumber, NoValue)
                        ELSE Outcome(UnexpectedEndOfJson, NoValue)

(* `{"a":` : the input ends after the colon of the first member.          *)
C4_Witness ==
    /\ pc = "done"
    /\ doc.kind = "object"
    /\ doc.gap = <<>>
    /\ input = T_LBRACE \o T_STRING_A \o T_COLON
    /\ result = Outcome(UnexpectedEndOfJson, NoValue)

(* C4 as stated: every such prefix fails with UnexpectedEndOfJson.        *)
C4_Original ==
    (pc = "done" /\ IsCutShort(doc)) => result = Outcome(UnexpectedEndOfJson, NoValue)

---------------------------------------------------------------------------
(* C5.  An optional sign, a `0`, and up to MaxFollow characters after it. *)
MaxFollow == 2

Signs == {<<>>, <<CH_PLUS>>, <<CH_MINUS>>}

ZeroFollowers ==
    {CH_0, CH_0 + 1, CH_0 + 7, CH_DOT, CH_e, CH_UPPER_E, CH_x, CH_UPPER_X, CH_SPACE,
     CH_COMMA}

ZeroDocs == [sign : Signs, follow : SeqsUpTo(ZeroFollowers, MaxFollow)]

ZeroText(d) == d.sign \o <<CH_0>> \o d.follow

InitZero == \E d \in ZeroDocs : Fresh(d, ZeroText(d))

SpecZero == InitZero /\ [][Next]_vars

(* The value step has been taken.                                          *)
ValueTaken == pc \in {"trail", "end", "done"}

(* The cursor is on the `0` and no value was produced: the literal was    *)
(* rejected before any of it was scanned.                                  *)
RejectedAtZero == pc = "done" /\ val = NoValue /\ pos = Len(doc.sign) + 1

DigitFollows(d) == d.follow # <<>> /\ is_ascii_digit(d.follow[1])

(* C5: after an optional sign, a `0` directly followed by a decimal digit *)
(* fails with UnparseableNumber whatever comes after; a `0` followed by   *)
(* the end of input, `.`, `e`/`E`, `x`/`X` or another non-digit is not    *)
(* rejected at the `0`, and a `0` alone, or before a space or comma, is   *)
(* Integer(0).                                                             *)
C5_LeadingZero ==
    ValueTaken =>
        /\ DigitFollows(doc) =>
               (RejectedAtZero /\ result = Outcome(UnparseableNumber, NoValue))
        /\ ~DigitFollows(doc) => ~RejectedAtZero
        /\ (doc.follow = <<>> /\ pc = "done") => result = Outcome(NoError, Integer(0))
        /\ (doc.follow # <<>> /\ doc.follow[1] \in {CH_SPACE, CH_COMMA} /\ pc = "trail") =>
               (val = Integer(0) /\ pos = Len(doc.sign) + 2)
        /\ (doc.follow # <<>> /\ doc.follow[1] \in {CH_x, CH_UPPER_X} /\ pc = "trail") =>
               val.t = "Integer"
        /\ (doc.follow # <<>> /\ doc.follow[1] \in {CH_DOT, CH_e, CH_UPPER_E}
            /\ pc = "trail") => val.t = "Float"

(* `-01` is rejected with UnparseableNumber.                              *)
C5_Witness ==
    /\ pc = "done"
    /\ input = <<CH_MINUS, CH_0, CH_0 + 1>>
    /\ result = Outcome(UnparseableNumber, NoValue)

---------------------------------------------------------------------------
(* C6.  An optional sign, `0x` or `0X`, a run of hex digits and something *)
(* that is no hex digit, or nothing.  The run is a first digit or none,   *)
(* up to MaxFill copies of one digit, and a last digit or none, which     *)
(* reaches the values next to both ends of the 32-bit range.              *)
MaxFill == 7

HexMarkers == {CH_x, CH_UPPER_X}
HexFirst == {<<>>, <<CH_0>>, <<CH_0 + 7>>, <<CH_0 + 8>>, <<CH_f>>, <<CH_UPPER_A>>}
HexFill == {CH_0, CH_f}
HexLast == {<<>>, <<CH_0 + 1>>}
HexTerms == {<<>>, <<CH_l>>, <<CH_SPACE>>}

HexDocs ==
    [sign : Signs, marker : HexMarkers, first : HexFirst, fill : HexFill,
     count : 0..MaxFill, last : HexLast, term : HexTerms]

HexRun(d) == d.first \o [k \in 1..d.count |-> d.fill] \o d.last

HexText(d) == d.sign \o <<CH_0, d.marker>> \o HexRun(d) \o d.term

InitHex == \E d \in HexDocs : Fresh(d, HexText(d))

SpecHex == InitHex /\ [][Next]_vars

(* The value of a hex digit and of a run of at most eight of them whose   *)
(* first is at most 7.                                                     *)
HexDigit(c) ==
    IF c <= CH_9 THEN c - CH_0
    ELSE IF c >= CH_a THEN c - CH_a + 10
    ELSE c - CH_UPPER_A + 10

RECURSIVE Value16(_, _)
Value16(h, acc) == IF h = <<>> THEN acc ELSE Value16(Tail(h), acc * 16 + HexDigit(Head(h)))

RECURSIVE Significant(_)
Significant(h) == IF h # <<>> /\ Head(h) = CH_0 THEN Significant(Tail(h)) ELSE h

IsNegative(d) == d.sign = <<CH_MINUS>>

(* The run 80000000, the magnitude of the least 32-bit integer.           *)
IsLeastMagnitude(g) ==
    Len(g) = 8 /\ g[1] = CH_0 + 8 /\ \A k \in 2..8 : g[k] = CH_0

(* sign * value16(h) lies in [-2^31, 2^31 - 1].                            *)
HexInRange(d) ==
    \/ Len(Significant(HexRun(d))) < 8
    \/ (Len(Significant(HexRun(d))) = 8 /\ HexDigit(Significant(HexRun(d))[1]) <= 7)
    \/ (IsNegative(d) /\ IsLeastMagnitude(Significant(HexRun(d))))

HexExpected(d) ==
    IF IsLeastMagnitude(Significant(HexRun(d))) THEN I32_MIN
    ELSE IF IsNegative(d) THEN -Value16(Significant(HexRun(d)), 0)
    ELSE Value16(Significant(HexRun(d)), 0)

(* Where the run of hex digits ends in the input.                          *)
HexRunEnd(d) == Len(d.sign) + 2 + Len(HexRun(d)) + 1

(* C6: an optional sign, `0x` or `0X` and the longest run h of hex digits *)
(* after it give Integer(sign * value16(h)) exactly when h is not empty   *)
(* and the value lies in [-2^31, 2^31 - 1]; an empty run or a value out   *)
(* of range fails with UnparseableNumber; the scan stops at the first     *)
(* character that is no hex digit and leaves it unconsumed.               *)
C6_HexInteger ==
    /\ pc = "trail" =>
           /\ HexRun(doc) # <<>> /\ HexInRange(doc)
           /\ val = Integer(HexExpected(doc))
           /\ pos = HexRunEnd(doc)
           /\ Ch(input, pos) = (IF doc.term = <<>> THEN None ELSE doc.term[1])
    /\ (pc = "done" /\ val = NoValue) =>
           /\ HexRun(doc) = <<>> \/ ~HexInRange(doc)
           /\ result = Outcome(UnparseableNumber, NoValue)
           /\ pos = HexRunEnd(doc)

(* `-0x80000000` is the least 32-bit integer.                             *)
C6_Witness ==
    /\ pc = "done"
    /\ input = <<CH_MINUS, CH_0, CH_x, CH_0 + 8, CH_0, CH_0, CH_0, CH_0, CH_0, CH_0, CH_0>>
    /\ result = Outcome(NoError, Integer(I32_MIN))

---------------------------------------------------------------------------
(* C7.  An optional sign, a run of up to MaxDec characters that extend a  *)
(* decimal literal (or one of the runs next to the 32-bit range), and     *)
(* something that does not extend it, or nothing.  The documents are      *)
(* those parse_number hands to parse_decimal_literal: something follows   *)
(* the sign, and it is not a `0` before a digit, `x` or `X`.              *)
MaxDec == 3

DecChars == {CH_0, CH_0 + 1, CH_0 + 2, CH_PLUS, CH_MINUS, CH_DOT, CH_e, CH_UPPER_E}

AsDigits(ds) == [k \in 1..Len(ds) |-> CH_0 + ds[k]]

T_I32_MAX == AsDigits(<<2, 1, 4, 7, 4, 8, 3, 6, 4, 7>>)
T_I32_MAX_PLUS_ONE == AsDigits(<<2, 1, 4, 7, 4, 8, 3, 6, 4, 8>>)
T_I32_MAX_PLUS_TWO == AsDigits(<<2, 1, 4, 7, 4, 8, 3, 6, 4, 9>>)

DecRuns ==
    SeqsUpTo(DecChars, MaxDec) \cup {T_I32_MAX, T_I32_MAX_PLUS_ONE, T_I32_MAX_PLUS_TWO}

DecTerms == {<<>>, <<CH_SPACE>>, <<CH_RBRACKET>>}

StartsWithZeroRule(rest) ==
    /\ Len(rest) >= 2
    /\ rest[1] = CH_0
    /\ (is_ascii_digit(rest[2]) \/ rest[2] \in {CH_x, CH_UPPER_X})

DecDocs ==
    {d \in [sign : Signs, run : DecRuns, term : DecTerms] :
        /\ d.sign = <<>> => (d.run # <<>> /\ (is_ascii_digit(d.run[1]) \/ d.run[1] = CH_DOT))
        /\ d.run \o d.term # <<>>
        /\ ~StartsWithZeroRule(d.run \o d.term)}

DecText(d) == d.sign \o d.run \o d.term

InitDec == \E d \in DecDocs : Fresh(d, DecText(d))

SpecDec == InitDec /\ [][Next]_vars

(* The run holds a `.`, `e` or `E`.                                        *)
IsFloatRun(run) == \E k \in 1..Len(run) : run[k] \in {CH_DOT, CH_e, CH_UPPER_E}

AllDigits(t, from, to) == \A k \in from..to : is_ascii_digit(t[k])

(* An optional single sign and then one or more digits.                    *)
IsSignedDigits(t) ==
    \E sg \in 0..1 :
        /\ Len(t) > sg
        /\ sg = 1 => t[1] \in {CH_PLUS, CH_MINUS}
        /\ AllDigits(t, sg + 1, Len(t))

Unsigned(t) == IF t # <<>> /\ t[1] \in {CH_PLUS, CH_MINUS} THEN Tail(t) ELSE t

(* g <= h for two digit texts of the same length.                          *)
RECURSIVE DigitsLeq(_, _)
DigitsLeq(g, h) ==
    \/ g = <<>>
    \/ Head(g) < Head(h)
    \/ (Head(g) = Head(h) /\ DigitsLeq(Tail(g), Tail(h)))

RECURSIVE Value10(_, _)
Value10(g, acc) == IF g = <<>> THEN acc ELSE Value10(Tail(g), acc * 10 + (Head(g) - CH_0))

StartsNegative(t) == t # <<>> /\ t[1] = CH_MINUS

(* The number the signed digits t denote lies in [-2^31, 2^31 - 1].        *)
DecInRange(t) ==
    \/ Len(Significant(Unsigned(t))) < 10
    \/ (Len(Significant(Unsigned(t))) = 10 /\ DigitsLeq(Significant(Unsigned(t)), T_I32_MAX))
    \/ (StartsNegative(t) /\ Significant(Unsigned(t)) = T_I32_MAX_PLUS_ONE)

DecExpected(t) ==
    IF Significant(Unsigned(t)) = T_I32_MAX_PLUS_ONE THEN I32_MIN
    ELSE IF StartsNegative(t) THEN -Value10(Significant(Unsigned(t)), 0)
    ELSE Value10(Significant(Unsigned(t)), 0)

(* A float text: [sign] digits [. digits] [(e|E) [sign] digits], with a   *)
(* digit before the exponent and a digit in it.  The integral digits end  *)
(* at i, the fraction at j, and the exponent's digits start after k.      *)
IsFloatText(t) ==
    \E sg \in 0..1, i \in 0..Len(t), j \in 0..Len(t), k \in 0..Len(t) :
        /\ sg <= i /\ i <= j /\ j <= k
        /\ sg = 1 => (t # <<>> /\ t[1] \in {CH_PLUS, CH_MINUS})
        /\ AllDigits(t, sg + 1, i)
        /\ j > i => (t[i + 1] = CH_DOT /\ AllDigits(t, i + 2, j))
        /\ (i - sg) + (IF j > i THEN j - i - 1 ELSE 0) >= 1
        /\ IF j = Len(t) THEN k = j
           ELSE /\ t[j + 1] \in {CH_e, CH_UPPER_E}
                /\ k \in {j + 1, j + 2}
                /\ k = j + 2 => t[j + 2] \in {CH_PLUS, CH_MINUS}
                /\ k < Len(t)
                /\ AllDigits(t, k + 1, Len(t))

DecRunEnd(d) == Len(d.sign) + Len(d.run) + 1

(* C7: parse_decimal_literal consumes the longest run of characters in    *)
(* 0-9, `+`, `-`, `.`, `e`, `E` after the sign parse_number took.  A run  *)
(* without `.`, `e`, `E` gives Integer(n) exactly when sign and run are   *)
(* an optional single sign and one or more digits with n in               *)
(* [-2^31, 2^31 - 1]; a run with one of them gives a Float exactly when   *)
(* sign and run are a float text; every other run fails with              *)
(* UnparseableNumber.                                                      *)
C7_DecimalLiteral ==
    /\ pc = "trail" =>
           /\ pos = DecRunEnd(doc)
           /\ IF IsFloatRun(doc.run)
              THEN val.t = "Float" /\ IsFloatText(doc.sign \o doc.run)
              ELSE /\ IsSignedDigits(doc.sign \o doc.run)
                   /\ DecInRange(doc.sign \o doc.run)
                   /\ val = Integer(DecExpected(doc.sign \o doc.run))
    /\ (pc = "done" /\ val = NoValue) =>
           /\ pos = DecRunEnd(doc)
           /\ result = Outcome(UnparseableNumber, NoValue)
           /\ IF IsFloatRun(doc.run)
              THEN ~IsFloatText(doc.sign \o doc.run)
              ELSE ~(IsSignedDigits(doc.sign \o doc.run) /\ DecInRange(doc.sign \o doc.run))

(* `1-2` is one run and fails with UnparseableNumber.                     *)
C7_Witness ==
    /\ pc = "done"
    /\ input = <<CH_0 + 1, CH_MINUS, CH_0 + 2>>
    /\ pos = 4
    /\ result = Outcome(UnparseableNumber, NoValue)

---------------------------------------------------------------------------
(* C8.  A string literal: a quote, up to MaxItems items, the same quote.  *)
(* An item is an ordinary character, the other quote character, or an     *)
(* escape.  The input is the literal with something after it, or the      *)
(* literal cut after `cut` characters.                                     *)
MaxItems == 2

Marks == {CH_DQUOTE, CH_SQUOTE}

OtherMark(mark) == IF mark = CH_DQUOTE THEN CH_SQUOTE ELSE CH_DQUOTE

Items ==
    {"ordinary", "other quote", "escaped quote", "escaped backslash", "newline escape",
     "hex escape", "unicode escape", "surrogate pair", "line continuation",
     "plain escape"}

ItemText(item, mark) ==
    CASE item = "ordinary" -> <<CH_a>>
      [] item = "other quote" -> <<OtherMark(mark)>>
      [] item = "escaped quote" -> <<CH_BACKSLASH, mark>>
      [] item = "escaped backslash" -> <<CH_BACKSLASH, CH_BACKSLASH>>
      [] item = "newline escape" -> <<CH_BACKSLASH, CH_n>>
      [] item = "hex escape" -> <<CH_BACKSLASH, CH_x, CH_0 + 4, CH_0 + 1>>
      [] item = "unicode escape" -> <<CH_BACKSLASH, CH_u, CH_0, CH_0, CH_0 + 4, CH_0 + 1>>
      [] item = "surrogate pair" ->
             <<CH_BACKSLASH, CH_u, CH_UPPER_A + 3, CH_0 + 8, CH_0 + 3, CH_UPPER_A + 3,
               CH_BACKSLASH, CH_u, CH_UPPER_A + 3, CH_UPPER_E, CH_0, CH_0>>
      [] item = "line continuation" -> <<CH_BACKSLASH, CH_LF>>
      [] item = "plain escape" -> <<CH_BACKSLASH, CH_l>>

(* The characters an item stands for; U+1F600 is the scalar of the        *)
(* surrogate pair D83D DE00.                                               *)
ItemDecoded(item, mark) ==
    CASE item = "ordinary" -> <<CH_a>>
      [] item = "other quote" -> <<OtherMark(mark)>>
      [] item = "escaped quote" -> <<mark>>
      [] item = "escaped backslash" -> <<CH_BACKSLASH>>
      [] item = "newline escape" -> <<CH_LF>>
      [] item = "hex escape" -> <<CH_UPPER_A>>
      [] item = "unicode escape" -> <<CH_UPPER_A>>
      [] item = "surrogate pair" -> <<SUPPLEMENTARY_FIRST + 62976>>
      [] item = "line continuation" -> <<>>
      [] item = "plain escape" -> <<CH_l>>

Literal(mark, items) ==
    <<mark>> \o Flatten([k \in 1..Len(items) |-> ItemText(items[k], mark)]) \o <<mark>>

Decoded(mark, items) == Flatten([k \in 1..Len(items) |-> ItemDecoded(items[k], mark)])

(* What follows the literal: nothing, or text with the same quote in it.  *)
StringTails(mark) == {<<>>, <<mark>>, <<CH_a, mark>>}

InitString ==
    \E mark \in Marks, items \in SeqsUpTo(Items, MaxItems) :
        \/ \E tail \in StringTails(mark) :
               Fresh([mark |-> mark, items |-> items, tail |-> tail,
                      cut |-> Len(Literal(mark, items))],
                     Literal(mark, items) \o tail)
        \/ \E cut \in 1..(Len(Literal(mark, items)) - 1) :
               Fresh([mark |-> mark, items |-> items, tail |-> <<>>, cut |-> cut],
                     SubSeq(Literal(mark, items), 1, cut))

SpecString == InitString /\ [][Next]_vars

IsUnterminated(d) == d.cut < Len(Literal(d.mark, d.items))

(* C8: a string ends at the first later occurrence of its opening quote   *)
(* that is not part of an escape; the other quote and an escaped quote    *)
(* are content; the String holds the decoded characters between the       *)
(* delimiters; and when the input ends before the closing quote, after a  *)
(* backslash or inside an escape included, the parse fails with           *)
(* UnexpectedEndOfJson.                                                    *)
C8_StringTermination ==
    /\ (ValueTaken /\ ~IsUnterminated(doc)) => val = String(Decoded(doc.mark, doc.items))
    /\ (pc = "trail" /\ ~IsUnterminated(doc)) => pos = Len(Literal(doc.mark, doc.items)) + 1
    /\ (ValueTaken /\ IsUnterminated(doc)) =>
           (pc = "done" /\ result = Outcome(UnexpectedEndOfJson, NoValue))

(* `"'\""` followed by `a"`: the string is the two quote characters and   *)
(* ends at the third `"`.                                                  *)
C8_Witness ==
    /\ pc = "trail"
    /\ doc.mark = CH_DQUOTE
    /\ doc.items = <<"other quote", "escaped quote">>
    /\ doc.tail = <<CH_a, CH_DQUOTE>>
    /\ val = String(<<CH_SQUOTE, CH_DQUOTE>>)
    /\ pos = 6

---------------------------------------------------------------------------
(* C9.  An object whose first or second member has `key` in key position, *)
(* with noise or nothing around the key, at the top or inside an array.   *)
(* After the key comes the rest of a member, a `}`, or nothing.           *)
ValueKeys == {T_NULL, T_TRUE, T_ONE, T_FRACTION, T_NAN, T_ARRAY_ONE, T_EMPTY_OBJECT}
IdentKeys == {T_IDENT_A, T_IDENT_FOO}
FailingKeys == {T_DOUBLE_ZERO, T_OPEN_STRING}
Keys == ValueKeys \cup IdentKeys \cup FailingKeys \cup {T_STRING_A}

MemberRest == T_COLON \o T_ONE \o T_RBRACE
KeyRests == {MemberRest, T_COLON \o T_ONE \o T_COMMA \o T_RBRACE, T_RBRACE, <<>>}
WellFormedRests == KeyRests \ {T_RBRACE, <<>>}

KeyFirsts == {<<>>, T_STRING_A \o T_COLON \o T_ONE \o T_COMMA}

KeyDocs ==
    {d \in [key : Keys, first : KeyFirsts, pre : Pads, post : Pads, rest : KeyRests,
            nested : BOOLEAN] :
        \* the open string runs to the end of the input
        d.key = T_OPEN_STRING => (d.post = <<>> /\ d.rest = <<>>)}

KeyPrefix(d) == (IF d.nested THEN T_LBRACKET ELSE <<>>) \o T_LBRACE \o d.first \o d.pre

KeyText(d) ==
    KeyPrefix(d) \o d.key \o d.post \o d.rest
    \o (IF d.nested /\ d.rest # <<>> THEN T_RBRACKET ELSE <<>>)

InitKey == \E d \in KeyDocs : Fresh(d, KeyText(d))

SpecKey == InitKey /\ [][Next]_vars

KeyStart(d) == Len(KeyPrefix(d)) + 1

(* C9: a value in key position that is no String (null, a boolean, a      *)
(* number, an array, an object) fails the parse with UnexpectedCharacter  *)
(* once it has been parsed, whatever follows it; an unquoted identifier   *)
(* (`a`, `foo`) fails with UnexpectedCharacter inside it; an error of the *)
(* key's own parse (`00`, a string that never closes) is returned as it   *)
(* is; a quoted key before a well-formed rest is accepted.                *)
C9_KeyMustBeString ==
    pc = "done" =>
        /\ doc.key \in ValueKeys =>
               /\ result = Outcome(UnexpectedCharacter, NoValue)
               /\ pos = KeyStart(doc) + Len(doc.key)
        /\ doc.key \in IdentKeys =>
               /\ result = Outcome(UnexpectedCharacter, NoValue)
               /\ pos < KeyStart(doc) + Len(doc.key)
        /\ doc.key = T_DOUBLE_ZERO =>
               /\ result = Outcome(UnparseableNumber, NoValue)
               /\ pos = KeyStart(doc)
        /\ doc.key = T_OPEN_STRING => result = Outcome(UnexpectedEndOfJson, NoValue)
        /\ (doc.key = T_STRING_A /\ doc.rest \in WellFormedRests) => result.err = NoError

(* `{null:1}` fails with UnexpectedCharacter behind the `null`.           *)
C9_Witness ==
    /\ pc = "done"
    /\ input = T_LBRACE \o T_NULL \o MemberRest
    /\ pos = 6
    /\ result = Outcome(UnexpectedCharacter, NoValue)

---------------------------------------------------------------------------
(* C10.  An object of up to MaxMembers members; member j has the value j  *)
(* and a key that is one of several spellings of `a` or of `b`.           *)
MaxMembers == 3

T_SQUOTED_A == <<CH_SQUOTE, CH_a, CH_SQUOTE>>
T_HEX_A == <<CH_DQUOTE, CH_BACKSLASH, CH_x, CH_0 + 6, CH_0 + 1, CH_DQUOTE>>
T_UNICODE_A == <<CH_DQUOTE, CH_BACKSLASH, CH_u, CH_0, CH_0, CH_0 + 6, CH_0 + 1, CH_DQUOTE>>
T_CONTINUED_A == <<CH_DQUOTE, CH_a, CH_BACKSLASH, CH_LF, CH_DQUOTE>>
T_STRING_B == <<CH_DQUOTE, CH_b, CH_DQUOTE>>
T_UNICODE_B == <<CH_SQUOTE, CH_BACKSLASH, CH_u, CH_0, CH_0, CH_0 + 6, CH_0 + 2, CH_SQUOTE>>

SpellingsOfA == {T_STRING_A, T_SQUOTED_A, T_HEX_A, T_UNICODE_A, T_CONTINUED_A}
SpellingsOfB == {T_STRING_B, T_UNICODE_B}

(* The text a spelling decodes to.                                         *)
KeyOf(spelling) == IF spelling \in SpellingsOfA THEN <<CH_a>> ELSE <<CH_b>>

DupDocs == [keys : SeqsUpTo(SpellingsOfA \cup SpellingsOfB, MaxMembers)]

RECURSIVE MembersText(_, _)
MembersText(keys, j) ==
    IF j > Len(keys) THEN <<>>
    ELSE keys[j] \o T_COLON \o <<CH_0 + j>>
         \o (IF j < Len(keys) THEN T_COMMA ELSE <<>>)
         \o MembersText(keys, j + 1)

DupText(d) == T_LBRACE \o MembersText(d.keys, 1) \o T_RBRACE

InitDup == \E d \in DupDocs : Fresh(d, DupText(d))

SpecDup == InitDup /\ [][Next]_vars

(* The last member whose key decodes to k.                                 *)
LastWith(keys, k) ==
    CHOOSE j \in 1..Len(keys) :
        /\ KeyOf(keys[j]) = k
        /\ \A i \in (j + 1)..Len(keys) : KeyOf(keys[i]) # k

(* C10: the object has one entry for every distinct decoded key, and the  *)
(* entry of a key holds the value of the last member with that key; keys  *)
(* are compared as decoded, so `"a"`, `'a'`, `"\x61"` and `"\u0061"` are  *)
(* one key.                                                                *)
C10_LastWriteWins ==
    pc = "done" =>
        /\ result.err = NoError
        /\ result.val.t = "Object"
        /\ DOMAIN result.val.m = {KeyOf(doc.keys[j]) : j \in 1..Len(doc.keys)}
        /\ \A k \in DOMAIN result.val.m :
               result.val.m[k] = Integer(LastWith(doc.keys, k))

(* `{"a":1,'a':2,"\x61":3}` is the object with the one entry a: 3.        *)
C10_Witness ==
    /\ pc = "done"
    /\ doc.keys = <<T_STRING_A, T_SQUOTED_A, T_HEX_A>>
    /\ result = Outcome(NoError, Object([k \in {<<CH_a>>} |-> Integer(3)]))

---------------------------------------------------------------------------
(* C11.  A chain of up to MaxChain index operations on a value: a scalar, *)
(* or an array or object of up to two levels.  An index is a position in  *)
(* 0..MaxIndex or one of two keys.                                         *)
MaxIndex == 2
MaxChain == 3

UpToTwo(S) == {<<>>} \cup {<<x>> : x \in S} \cup {<<x, y>> : x \in S, y \in S}

IndexKeys == {<<CH_a>>, <<CH_b>>}

Maps(S) == UNION {[D -> S] : D \in SUBSET IndexKeys}

Scalars == {Null, Integer(1)}

Inner ==
    Scalars \cup {Array(v) : v \in UpToTwo(Scalars)}
            \cup {Object(m) : m \in [{<<CH_a>>} -> Scalars]}

Roots ==
    Inner \cup {String(<<CH_a>>), Boolean(TRUE)}
          \cup {Array(v) : v \in UpToTwo(Inner)}
          \cup {Object(m) : m \in Maps(Inner)}

AtPosition(i) == [usize |-> TRUE, i |-> i, key |-> <<>>]
AtKey(k) == [usize |-> FALSE, i |-> 0, key |-> k]

InitIndex ==
    \E root \in Roots :
        /\ doc = root
        /\ input = <<>>
        /\ pos = 0
        /\ pc = "index"
        /\ val = root
        /\ result = Outcome(NoError, root)
        /\ path = <<>>

IndexUsize ==
    /\ pc = "index"
    /\ Len(path) < MaxChain
    /\ \E i \in 0..MaxIndex :
           /\ val' = index_usize(val, i)
           /\ path' = Append(path, AtPosition(i))
    /\ UNCHANGED <<doc, input, pos, pc, result>>

IndexStr ==
    /\ pc = "index"
    /\ Len(path) < MaxChain
    /\ \E key \in IndexKeys :
           /\ val' = index_str(val, key)
           /\ path' = Append(path, AtKey(key))
    /\ UNCHANGED <<doc, input, pos, pc, result>>

NextIndex == IndexUsize \/ IndexStr

SpecIndex == InitIndex /\ [][NextIndex]_vars

(* What the claim gives for one index applied to v.                       *)
Degrade(v, at) ==
    IF at.usize
    THEN IF v.t = "Array" /\ Len(v.v) > at.i THEN v.v[at.i + 1] ELSE Null
    ELSE IF v.t = "Object" /\ at.key \in DOMAIN v.m THEN v.m[at.key] ELSE Null

RECURSIVE Walk(_, _)
Walk(v, steps) == IF steps = <<>> THEN v ELSE Walk(Degrade(v, Head(steps)), Tail(steps))

(* The values inside v, v included.                                        *)
RECURSIVE SubValues(_)
SubValues(v) ==
    {v} \cup (IF v.t = "Array" THEN UNION {SubValues(v.v[k]) : k \in 1..Len(v.v)}
              ELSE IF v.t = "Object" THEN UNION {SubValues(v.m[k]) : k \in DOMAIN v.m}
              ELSE {})

(* C11: v[i] is the i-th element of an Array with more than i elements    *)
(* and Null otherwise, v[k] is the value an Object maps k to and Null     *)
(* otherwise, and so a chain of index operations of any length ends in a  *)
(* value inside the one it started from or in Null.                       *)
C11_IndexDegrades ==
    pc = "index" =>
        /\ val = Walk(doc, path)
        /\ val = Null \/ val \in SubValues(doc)

(* v["b"][1] on {"a": 1, "b": [null, 1]} is the 1 inside the array.       *)
C11_Witness ==
    /\ pc = "index"
    /\ doc = Object([k \in IndexKeys |->
                        IF k = <<CH_a>> THEN Integer(1) ELSE Array(<<Null, Integer(1)>>)])
    /\ path = <<AtKey(<<CH_b>>), AtPosition(1)>>
    /\ val = Integer(1)

---------------------------------------------------------------------------
(* C12.  A string literal with one `\x` escape: a double quote, `before`, *)
(* `\x`, the two characters c1 and c2, `after`, a double quote.  `after`  *)
(* is empty or a character that is itself a hex digit.                     *)
EscapeChars ==
    {CH_0, CH_0 + 4, CH_0 + 7, CH_0 + 8, CH_9, CH_a, CH_f, CH_UPPER_A, CH_UPPER_F,
     CH_PLUS, CH_MINUS, CH_l, CH_x, CH_SPACE, CH_DQUOTE}

EscapeBefore == {<<>>, <<CH_a>>}

EscapeAfter == {<<>>, <<CH_b>>}

HexEscapeLiteral(d) ==
    <<CH_DQUOTE>> \o d.before \o <<CH_BACKSLASH, CH_x, d.c1, d.c2>> \o d.after
    \o <<CH_DQUOTE>>

InitHexEscape ==
    \E c1 \in EscapeChars, c2 \in EscapeChars,
       before \in EscapeBefore, after \in EscapeAfter :
        Fresh([c1 |-> c1, c2 |-> c2, before |-> before, after |-> after],
              HexEscapeLiteral([c1 |-> c1, c2 |-> c2, before |-> before,
                                after |-> after]))

SpecHexEscape == InitHexEscape /\ [][Next]_vars

IsHexChar(c) ==
    \/ c >= CH_0 /\ c <= CH_9
    \/ c >= CH_a /\ c <= CH_f
    \/ c >= CH_UPPER_A /\ c <= CH_UPPER_F

(* The string the literal stands for when its escape stands for `code`,   *)
(* with the cursor behind the closing quote; and the failure of the       *)
(* parse with UnexpectedCharacter.                                         *)
EscapeAppends(d, code) ==
    /\ val = String(d.before \o <<code>> \o d.after)
    /\ pc = "trail" => pos = Len(HexEscapeLiteral(d)) + 1

EscapeRejected == pc = "done" /\ result = Outcome(UnexpectedCharacter, NoValue)

EscapeByte(d) == 16 * HexDigit(d.c1) + HexDigit(d.c2)

(* C12 as stated: `\x` c1 c2 appends the character 16*hex(c1)+hex(c2)     *)
(* when c1 and c2 are hex digits and that value is at most 0x7F, and      *)
(* nothing more than c1 c2 is consumed; when c1 or c2 is not a hex digit, *)
(* or the byte is 0x80 or above, the parse fails with UnexpectedCharacter. *)
C12_Original ==
    ValueTaken =>
        IF IsHexChar(doc.c1) /\ IsHexChar(doc.c2) /\ EscapeByte(doc) <= 127
        THEN EscapeAppends(doc, EscapeByte(doc))
        ELSE EscapeRejected

(* C12, as the code has it: as stated, except that a `+` in the place of  *)
(* c1 before a hex digit c2 is accepted and appends the character hex(c2). *)
C12_HexEscape ==
    ValueTaken =>
        IF IsHexChar(doc.c1) /\ IsHexChar(doc.c2) /\ EscapeByte(doc) <= 127
        THEN EscapeAppends(doc, EscapeByte(doc))
        ELSE IF doc.c1 = CH_PLUS /\ IsHexChar(doc.c2)
        THEN EscapeAppends(doc, HexDigit(doc.c2))
        ELSE EscapeRejected

(* `"\x+f"` is accepted as the string of the one character U+000F.        *)
C12_Witness ==
    /\ pc = "done"
    /\ doc = [c1 |-> CH_PLUS, c2 |-> CH_f, before |-> <<>>, after |-> <<>>]
    /\ result = Outcome(NoError, String(<<15>>))

---------------------------------------------------------------------------
(* C13.  A string literal that starts with one `\u` escape: a double      *)
(* quote, `\u`, the four hex digits of the unit `first`, and then what    *)
(* `follow` names: the closing quote; a second `\u` escape with the unit  *)
(* `second` and the closing quote; an ordinary character or another kind  *)
(* of escape and the closing quote; the end of the input; or a backslash  *)
(* and the end of the input.  A unit is written in upper or lower case.   *)
UpperHex(n) == IF n < 10 THEN CH_0 + n ELSE CH_UPPER_A + (n - 10)

LowerHex(n) == IF n < 10 THEN CH_0 + n ELSE CH_a + (n - 10)

UnitTexts ==
    {<<CH_0, CH_0, CH_0, CH_0>>,
     <<CH_0, CH_0, CH_0 + 4, CH_0 + 1>>,
     <<LowerHex(13), CH_0 + 7, LowerHex(15), LowerHex(15)>>,
     <<UpperHex(13), CH_0 + 8, CH_0, CH_0>>,
     <<LowerHex(13), CH_0 + 8, CH_0 + 3, UpperHex(13)>>,
     <<UpperHex(13), UpperHex(11), UpperHex(15), UpperHex(15)>>,
     <<LowerHex(13), LowerHex(12), CH_0, CH_0>>,
     <<UpperHex(13), UpperHex(14), CH_0, CH_0>>,
     <<UpperHex(13), UpperHex(15), UpperHex(15), UpperHex(15)>>,
     <<LowerHex(14), CH_0, CH_0, CH_0>>,
     <<UpperHex(15), UpperHex(15), UpperHex(15), UpperHex(15)>>}

Follows == {"close", "escape", "character", "other escape", "end", "backslash end"}

UnicodeEscape(unit) == <<CH_BACKSLASH, CH_u>> \o unit

FollowText(d) ==
    CASE d.follow = "close" -> <<CH_DQUOTE>>
      [] d.follow = "escape" -> UnicodeEscape(d.second) \o <<CH_DQUOTE>>
      [] d.follow = "character" -> <<CH_a, CH_DQUOTE>>
      [] d.follow = "other escape" -> <<CH_BACKSLASH, CH_n, CH_DQUOTE>>
      [] d.follow = "end" -> <<>>
      [] d.follow = "backslash end" -> <<CH_BACKSLASH>>

UnicodeLiteral(d) == <<CH_DQUOTE>> \o UnicodeEscape(d.first) \o FollowText(d)

InitUnicode ==
    \E first \in UnitTexts, follow \in Follows, second \in UnitTexts :
        /\ follow # "escape" => second = first
        /\ Fresh([first |-> first, follow |-> follow, second |-> second],
                 UnicodeLiteral([first |-> first, follow |-> follow,
                                 second |-> second]))

SpecUnicode == InitUnicode /\ [][Next]_vars

(* The unit a text of four hex digits writes, and the classes of units.   *)
UnitOf(unit) == Value16(unit, 0)

IsHigh(u) == u >= 55296 /\ u <= 56319

IsLow(u) == u >= 56320 /\ u <= 57343

PairScalar(hi, lo) == 65536 + (hi - 55296) * 1024 + (lo - 56320)

Appended(str) == Outcome(NoError, String(str))

Failed(e) == Outcome(e, NoValue)

(* What the claim gives once the first escape was a scalar: the rest of   *)
(* the literal decides.                                                    *)
AfterScalar(d, u) ==
    CASE d.follow = "close" -> Appended(<<u>>)
      [] d.follow = "escape" ->
             IF IsHigh(UnitOf(d.second)) \/ IsLow(UnitOf(d.second))
             THEN Failed(UnexpectedCharacter)
             ELSE Appended(<<u, UnitOf(d.second)>>)
      [] d.follow = "character" -> Appended(<<u, CH_a>>)
      [] d.follow = "other escape" -> Appended(<<u, CH_LF>>)
      [] d.follow = "end" -> Failed(UnexpectedEndOfJson)
      [] d.follow = "backslash end" -> Failed(UnexpectedEndOfJson)

(* What the claim gives after a high surrogate.                            *)
AfterHigh(d, hi) ==
    CASE d.follow = "escape" ->
             IF IsLow(UnitOf(d.second))
             THEN Appended(<<PairScalar(hi, UnitOf(d.second))>>)
             ELSE Failed(UnexpectedCharacter)
      [] d.follow \in {"close", "character", "other escape"} ->
             Failed(UnexpectedCharacter)
      [] d.follow \in {"end", "backslash end"} -> Failed(UnexpectedEndOfJson)

UnicodeExpected(d) ==
    IF IsLow(UnitOf(d.first)) THEN Failed(UnexpectedCharacter)
    ELSE IF IsHigh(UnitOf(d.first)) THEN AfterHigh(d, UnitOf(d.first))
    ELSE AfterScalar(d, UnitOf(d.first))

(* C13: `\uHHHH` with a unit outside 0xD800-0xDFFF appends that scalar; a *)
(* high surrogate directly followed by `\u` and a low surrogate appends   *)
(* the one scalar 0x10000 + (hi - 0xD800) * 0x400 + (lo - 0xDC00); a low  *)
(* surrogate that follows no high one, and a high surrogate followed by   *)
(* `\u` and a unit that is no low surrogate, fail with                    *)
(* UnexpectedCharacter; a high surrogate followed by something other than *)
(* `\u` fails with UnexpectedCharacter, and with UnexpectedEndOfJson when *)
(* the input ends there.                                                   *)
C13_UnicodeEscape ==
    /\ pc = "trail" =>
           /\ Outcome(NoError, val) = UnicodeExpected(doc)
           /\ pos = Len(input) + 1
    /\ pc = "done" => result = UnicodeExpected(doc)

(* `"\ud83D\uDE00"` is the string of the one character U+1F600.   *)
C13_Witness ==
    /\ pc = "done"
    /\ doc.first = <<LowerHex(13), CH_0 + 8, CH_0 + 3, UpperHex(13)>>
    /\ doc.follow = "escape"
    /\ doc.second = <<UpperHex(13), UpperHex(14), CH_0, CH_0>>
    /\ result = Outcome(NoError, String(<<128512>>))

---------------------------------------------------------------------------
(* C14.  A string literal of up to MaxLines items between double quotes.  *)
(* An item is an ordinary character, the escape `\n`, a raw line feed, a  *)
(* raw carriage return, a raw U+2028, or a backslash before a line feed,  *)
(* a carriage return, a carriage return and line feed, U+2028 or U+2029.  *)
MaxLines == 3

Continuations ==
    {"continue LF", "continue CR", "continue CR LF", "continue LS", "continue PS"}

LineItems == Continuations \cup {"character", "escape n", "raw LF", "raw CR", "raw LS"}

LineItemText(item) ==
    CASE item = "character" -> <<CH_a>>
      [] item = "escape n" -> <<CH_BACKSLASH, CH_n>>
      [] item = "raw LF" -> <<CH_LF>>
      [] item = "raw CR" -> <<CH_CR>>
      [] item = "raw LS" -> <<CH_LS>>
      [] item = "continue LF" -> <<CH_BACKSLASH, CH_LF>>
      [] item = "continue CR" -> <<CH_BACKSLASH, CH_CR>>
      [] item = "continue CR LF" -> <<CH_BACKSLASH, CH_CR, CH_LF>>
      [] item = "continue LS" -> <<CH_BACKSLASH, CH_LS>>
      [] item = "continue PS" -> <<CH_BACKSLASH, CH_PS>>

LineLiteral(items) ==
    <<CH_DQUOTE>> \o Flatten([k \in 1..Len(items) |-> LineItemText(items[k])])
    \o <<CH_DQUOTE>>

InitLines ==
    \E items \in SeqsUpTo(LineItems, MaxLines) :
        Fresh([items |-> items], LineLiteral(items))

SpecLines == InitLines /\ [][Next]_vars

(* Item k is the line feed of a CR LF pair whose carriage return follows  *)
(* a backslash: part of the continuation before it.                       *)
ClosesPair(items, k) ==
    k > 1 /\ items[k] = "raw LF" /\ items[k - 1] = "continue CR"

(* Item k is a carriage return or line feed that no backslash escapes.    *)
IsRawNewline(items, k) ==
    items[k] = "raw CR" \/ (items[k] = "raw LF" /\ ~ClosesPair(items, k))

IsContinuation(items, k) == items[k] \in Continuations \/ ClosesPair(items, k)

LineItemDecoded(item) ==
    CASE item = "character" -> <<CH_a>>
      [] item = "escape n" -> <<CH_LF>>
      [] item = "raw LS" -> <<CH_LS>>

LinesDecoded(items) ==
    Flatten([k \in 1..Len(items) |->
                IF IsContinuation(items, k) THEN <<>> ELSE LineItemDecoded(items[k])])

(* The items without the line continuations.                               *)
RECURSIVE WithoutContinuations(_, _)
WithoutContinuations(items, k) ==
    IF k > Len(items) THEN <<>>
    ELSE IF IsContinuation(items, k) THEN WithoutContinuations(items, k + 1)
    ELSE <<items[k]>> \o WithoutContinuations(items, k + 1)

HasRawNewline(items) == \E k \in 1..Len(items) : IsRawNewline(items, k)

(* C14: a backslash before LF, CR, CR LF, U+2028 or U+2029 adds no        *)
(* character to the string (CR LF being one continuation) and the parse   *)
(* goes on with the character behind it; a carriage return or line feed   *)
(* that no backslash escapes, a carriage return behind a backslash-LF     *)
(* continuation included, fails with UnexpectedCharacter; and the literal *)
(* without its line continuations parses to the same String.              *)
C14_LineContinuation ==
    /\ (ValueTaken /\ HasRawNewline(doc.items)) =>
           (pc = "done" /\ result = Outcome(UnexpectedCharacter, NoValue))
    /\ (ValueTaken /\ ~HasRawNewline(doc.items)) =>
           /\ val = String(LinesDecoded(doc.items))
           /\ pc = "trail" => pos = Len(input) + 1
    /\ (pc = "done" /\ ~HasRawNewline(doc.items)) =>
           result = parse(LineLiteral(WithoutContinuations(doc.items, 1)))

(* `"a`, a backslash before CR LF, `a"` is the string `aa`.               *)
C14_Witness ==
    /\ pc = "done"
    /\ doc.items = <<"character", "continue CR LF", "character">>
    /\ result = Outcome(NoError, String(<<CH_a, CH_a>>))

---------------------------------------------------------------------------
(* C15.  The parser as the steps of its control flow.  A step is one turn *)
(* of a loop of skip_comments, parse_string, parse_array or parse_object,  *)
(* the entry of a routine, or one statement between two calls; a scalar    *)
(* (null, a boolean, a number) is parsed in one step.  `path` is the call  *)
(* stack, the running routine's frame first.  A frame holds the routine's  *)
(* name, the label at which its caller goes on, the cursor at the call     *)
(* (`from`), the cursor at the head of the loop turn that is running       *)
(* (`at`, None before the first turn), and the routine's locals: the       *)
(* quote `mark`, the characters or elements `v`, the map `m`, the `key`.   *)

(* The inputs: every text of up to MaxInput characters of           *)
(* StepChars, and every prefix of the documents below.  A whole document  *)
(* is `lead`, one value and `trail`; a broken one is its text alone.      *)
MaxInput == 3

StepChars ==
    {CH_LBRACKET, CH_RBRACKET, CH_LBRACE, CH_RBRACE, CH_COLON, CH_COMMA, CH_DQUOTE,
     CH_BACKSLASH, CH_SLASH, CH_STAR, CH_0 + 1, CH_LF}

D_MIXED_LEAD == <<CH_SPACE, CH_SLASH, CH_STAR, CH_STAR, CH_SLASH, CH_SPACE>>
D_MIXED ==
    <<CH_LBRACKET, CH_0 + 1, CH_COMMA, CH_SPACE, CH_DQUOTE, CH_a,
      CH_BACKSLASH, CH_x, CH_0 + 4, CH_0 + 1, CH_BACKSLASH, CH_n,
      CH_BACKSLASH, CH_LF, CH_b, CH_BACKSLASH, CH_a + 16, CH_SQUOTE,
      CH_DQUOTE, CH_SPACE, CH_COMMA, CH_SPACE, CH_SLASH, CH_SLASH, CH_x,
      CH_LF, CH_LBRACE, CH_DQUOTE, CH_a + 10, CH_DQUOTE, CH_COLON,
      CH_SPACE, CH_LBRACKET, CH_n, CH_u, CH_l, CH_l, CH_COMMA, CH_SPACE,
      CH_LBRACE, CH_RBRACE, CH_RBRACKET, CH_COMMA, CH_SPACE, CH_SQUOTE,
      CH_a + 16, CH_SQUOTE, CH_COLON, CH_SPACE, CH_MINUS, CH_0, CH_x,
      CH_0 + 1, CH_COMMA, CH_RBRACE, CH_COMMA, CH_SPACE, CH_RBRACKET>>
D_MIXED_TRAIL == <<CH_SPACE, CH_SLASH, CH_SLASH, CH_x>>
D_OBJECT_LEAD == <<>>
D_OBJECT ==
    <<CH_LBRACE, CH_DQUOTE, CH_a, CH_DQUOTE, CH_SPACE, CH_COLON, CH_SPACE,
      CH_DOT, CH_0 + 5, CH_SPACE, CH_SLASH, CH_STAR, CH_SPACE, CH_STAR,
      CH_SLASH, CH_COMMA, CH_SPACE, CH_DQUOTE, CH_BACKSLASH, CH_u, CH_0,
      CH_0, CH_0 + 6, CH_0 + 2, CH_DQUOTE, CH_COLON, CH_SPACE, CH_LBRACKET,
      CH_LBRACKET, CH_RBRACKET, CH_COMMA, CH_SPACE, CH_LBRACKET, CH_t,
      CH_r, CH_u, CH_e, CH_COMMA, CH_RBRACKET, CH_COMMA, CH_RBRACKET,
      CH_COMMA, CH_RBRACE>>
D_OBJECT_TRAIL == <<CH_SLASH, CH_STAR, CH_STAR, CH_SLASH>>
D_PAIR_LEAD == <<CH_TAB>>
D_PAIR ==
    <<CH_SQUOTE, CH_BACKSLASH, CH_u, CH_UPPER_A + 3, CH_0 + 8, CH_0 + 3,
      CH_UPPER_A + 3, CH_BACKSLASH, CH_u, CH_UPPER_A + 3, CH_UPPER_E, CH_0,
      CH_0, CH_DQUOTE, CH_SQUOTE>>
D_PAIR_TRAIL == <<CH_SPACE>>
D_NEG_INFINITY_LEAD == <<>>
D_NEG_INFINITY ==
    <<CH_MINUS, CH_UPPER_I, CH_n, CH_f, CH_i, CH_n, CH_i, CH_t, CH_y>>
D_NEG_INFINITY_TRAIL == <<CH_LF>>
D_FALSE_LEAD == <<CH_SLASH, CH_SLASH, CH_LF>>
D_FALSE == <<CH_f, CH_a, CH_l, CH_s, CH_e>>
D_FALSE_TRAIL == <<>>
D_TWO_ELEMENTS == <<CH_LBRACKET, CH_0 + 1, CH_SPACE, CH_0 + 2, CH_RBRACKET>>
D_NUMBER_KEY == <<CH_LBRACE, CH_0 + 1, CH_COLON, CH_0 + 2, CH_RBRACE>>
D_NO_COLON ==
    <<CH_LBRACE, CH_DQUOTE, CH_a, CH_DQUOTE, CH_SPACE, CH_0 + 1, CH_RBRACE>>
D_TWO_VALUES ==
    <<CH_LBRACE, CH_DQUOTE, CH_a, CH_DQUOTE, CH_COLON, CH_0 + 1, CH_SPACE,
      CH_0 + 2, CH_RBRACE>>
D_RAW_NEWLINE == <<CH_DQUOTE, CH_a, CH_LF, CH_DQUOTE>>
D_HALF_COMMENT == <<CH_SLASH, CH_x>>
D_WRONG_CLOSE == <<CH_LBRACKET, CH_0 + 1, CH_RBRACE>>
D_BAD_ESCAPE ==
    <<CH_DQUOTE, CH_BACKSLASH, CH_x, CH_0 + 4, CH_a + 6, CH_DQUOTE>>
D_TWO_TOP ==
    <<CH_0 + 1, CH_SPACE, CH_SLASH, CH_STAR, CH_STAR, CH_SLASH, CH_SPACE,
      CH_0 + 2>>
D_IDENT == <<CH_LBRACKET, CH_x, CH_RBRACKET>>

WholeDocs ==
    {[lead |-> D_MIXED_LEAD, value |-> D_MIXED, trail |-> D_MIXED_TRAIL],
     [lead |-> D_OBJECT_LEAD, value |-> D_OBJECT, trail |-> D_OBJECT_TRAIL],
     [lead |-> D_PAIR_LEAD, value |-> D_PAIR, trail |-> D_PAIR_TRAIL],
     [lead |-> D_NEG_INFINITY_LEAD, value |-> D_NEG_INFINITY, trail |-> D_NEG_INFINITY_TRAIL],
     [lead |-> D_FALSE_LEAD, value |-> D_FALSE, trail |-> D_FALSE_TRAIL]}

BrokenTexts ==
    {D_TWO_ELEMENTS, D_NUMBER_KEY, D_NO_COLON, D_TWO_VALUES, D_RAW_NEWLINE, D_HALF_COMMENT, D_WRONG_CLOSE, D_BAD_ESCAPE, D_TWO_TOP, D_IDENT}

DocText(d) == d.lead \o d.value \o d.trail

StepDocs ==
    {[lead |-> <<>>, value |-> t, trail |-> <<>>, cut |-> Len(t), whole |-> FALSE] :
        t \in SeqsUpTo(StepChars, MaxInput) \cup BrokenTexts}
    \cup {[lead |-> d.lead, value |-> d.value, trail |-> d.trail, cut |-> Len(DocText(d)),
           whole |-> TRUE] : d \in WholeDocs}
    \cup UNION {{[lead |-> <<>>, value |-> SubSeq(t, 1, cut), trail |-> <<>>, cut |-> cut,
                  whole |-> FALSE] : cut \in 0..(Len(t) - 1)} :
                t \in {DocText(d) : d \in WholeDocs} \cup BrokenTexts}

(* The routines that a step runs as a whole, applied once to every input  *)
(* and every cursor at which a step can call them.                         *)
Openers == {CH_DQUOTE, CH_SQUOTE, CH_LBRACKET, CH_LBRACE}

StepTexts == {DocText(d) : d \in StepDocs}

ValueOutcomes ==
    [t \in StepTexts |->
        [p \in 1..(Len(t) + 1) |->
            IF Ch(t, p) \in Openers THEN Null ELSE parse_value(t, p)]]

HexEscapeOutcomes ==
    [t \in StepTexts |->
        [p \in 1..(Len(t) + 1) |->
            IF Ch(t, p) = CH_BACKSLASH /\ peek(t, p) = CH_x
            THEN parse_hex_escape_sequence(t, p) ELSE Null]]

UnicodeEscapeOutcomes ==
    [t \in StepTexts |->
        [p \in 1..(Len(t) + 1) |->
            IF Ch(t, p) = CH_BACKSLASH /\ peek(t, p) = CH_u
            THEN parse_unicode_escape_sequence(t, p) ELSE Null]]

Frame(routine, ret, from) ==
    [routine |-> routine, ret |-> ret, from |-> from, at |-> None, mark |-> None,
     v |-> <<>>, m |-> HashMapNew, key |-> <<>>]

Top == Head(path)

WithTop(f) == <<f>> \o Tail(path)

(* A call of `routine` at cursor p, the caller's frames being `frames`.   *)
Call(routine, ret, frames, p) ==
    /\ pos' = p
    /\ pc' = routine
    /\ path' = <<Frame(routine, ret, p)>> \o frames
    /\ UNCHANGED <<doc, input, val, result>>

(* The running routine returns Ok(v) with the cursor at p.                 *)
Return(v, p) ==
    /\ pos' = p
    /\ val' = v
    /\ pc' = Top.ret
    /\ path' = Tail(path)
    /\ UNCHANGED <<doc, input, result>>

(* An Err(e) at cursor p: every caller hands it on (`?`) and parse ends.  *)
Fail(e, p) ==
    /\ pos' = p
    /\ pc' = "done"
    /\ result' = Outcome(e, NoValue)
    /\ UNCHANGED <<doc, input, val, path>>

(* The turn of a loop that started with the cursor at `pos` leaves the    *)
(* frame as f and the cursor at p, and the loop goes round.                *)
GoRound(f, p) ==
    /\ pos' = p
    /\ path' = WithTop([f EXCEPT !.at = pos])
    /\ UNCHANGED <<doc, input, pc, val, result>>

(* The outcome r of a call made within one step.                           *)
ReturnOrFail(r) == IF IsOk(r) THEN Return(r.val, r.pos) ELSE Fail(r.err, r.pos)

GoRoundOrFail(f, r) == IF IsOk(r) THEN GoRound(f, r.pos) ELSE Fail(r.err, r.pos)

(* parse: the first character, and the call of skip_comments.              *)
Enter ==
    /\ pc = "parse"
    /\ Call("skip_comments", "parse_lead", path, next(pos))

(* skip_comments up to its loop.                                           *)
SkipCommentsEnter ==
    /\ pc = "skip_comments"
    /\ pos' = skip_whitespace(input, pos)
    /\ pc' = "skip_comments_loop"
    /\ UNCHANGED <<doc, input, val, result, path>>

(* The loop of skip_comments ends: the character is no `/`.                *)
SkipCommentsExit ==
    /\ pc = "skip_comments_loop"
    /\ Ch(input, pos) # CH_SLASH
    /\ Return(val, pos)

(* A turn of the loop of skip_comments, by the character behind the `/`.  *)
SkipLineComment ==
    /\ pc = "skip_comments_loop"
    /\ Ch(input, pos) = CH_SLASH
    /\ peek(input, pos) = CH_SLASH
    /\ GoRound(Top, skip_whitespace(input, skip_single_line_comment(input, pos)))

after_block_comment(s, r) == IF IsOk(r) THEN Ok(NoValue, skip_whitespace(s, r.pos)) ELSE r

SkipBlockComment ==
    /\ pc = "skip_comments_loop"
    /\ Ch(input, pos) = CH_SLASH
    /\ peek(input, pos) = CH_STAR
    /\ GoRoundOrFail(Top, after_block_comment(input, skip_multi_line_comment(input, pos)))

SkipCommentsFail ==
    /\ pc = "skip_comments_loop"
    /\ Ch(input, pos) = CH_SLASH
    /\ peek(input, pos) \notin {CH_SLASH, CH_STAR}
    /\ Fail(IF peek(input, pos) = None THEN UnexpectedEndOfJson ELSE UnexpectedCharacter,
            pos)

(* parse: the call of parse_value, the second call of skip_comments, and  *)
(* the check that the input has ended.                                     *)
ParseLead ==
    /\ pc = "parse_lead"
    /\ Call("parse_value", "parse_trail", path, pos)

ParseTrail ==
    /\ pc = "parse_trail"
    /\ Call("skip_comments", "parse_end", path, pos)

ParseEnd ==
    /\ pc = "parse_end"
    /\ pc' = "done"
    /\ result' = IF Ch(input, pos) # None
                 THEN Outcome(UnexpectedCharacter, NoValue)
                 ELSE Outcome(NoError, val)
    /\ UNCHANGED <<doc, input, pos, val, path>>

(* parse_value: the dispatch on the character.  null, a boolean and a      *)
(* number are parsed here; so are the end of input and a character that   *)
(* starts no value.                                                        *)
ScalarValue ==
    /\ pc = "parse_value"
    /\ Ch(input, pos) \notin Openers
    /\ ReturnOrFail(ValueOutcomes[input][pos])

(* parse_string up to its loop: the mark and the first `next`.             *)
StringEnter ==
    /\ pc = "parse_value"
    /\ Ch(input, pos) \in {CH_DQUOTE, CH_SQUOTE}
    /\ pos' = next(pos)
    /\ pc' = "parse_string_loop"
    /\ path' = WithTop([Top EXCEPT !.mark = Ch(input, pos)])
    /\ UNCHANGED <<doc, input, val, result>>

(* The loop of parse_string ends without a string: the input ends (in the *)
(* loop's condition or behind a backslash), or a raw CR or LF.            *)
StringFail ==
    /\ pc = "parse_string_loop"
    /\ IF Ch(input, pos) = CH_BACKSLASH
       THEN peek(input, pos) = None
       ELSE Ch(input, pos) \in {None, CH_LF, CH_CR}
    /\ Fail(IF Ch(input, pos) \in {CH_LF, CH_CR}
            THEN UnexpectedCharacter ELSE UnexpectedEndOfJson, pos)

appended(f, r) == IF IsOk(r) THEN [f EXCEPT !.v = @ \o r.val] ELSE f

(* A turn of the loop of parse_string on `\x` or `\u`.                     *)
StringHexEscape ==
    /\ pc = "parse_string_loop"
    /\ Ch(input, pos) = CH_BACKSLASH
    /\ peek(input, pos) = CH_x
    /\ GoRoundOrFail(appended(Top, HexEscapeOutcomes[input][pos]),
                     HexEscapeOutcomes[input][pos])

StringUnicodeEscape ==
    /\ pc = "parse_string_loop"
    /\ Ch(input, pos) = CH_BACKSLASH
    /\ peek(input, pos) = CH_u
    /\ GoRoundOrFail(appended(Top, UnicodeEscapeOutcomes[input][pos]),
                     UnicodeEscapeOutcomes[input][pos])

(* A turn on a single-character escape, on a line continuation, and on a  *)
(* backslash before any other character.                                   *)
StringCharacterEscape ==
    /\ pc = "parse_string_loop"
    /\ Ch(input, pos) = CH_BACKSLASH
    /\ peek(input, pos) \in CharacterEscapes
    /\ GoRound([Top EXCEPT !.v = Append(@, parse_character_escape_sequence(peek(input, pos)))],
               next(next(pos)))

StringLineContinuation ==
    /\ pc = "parse_string_loop"
    /\ Ch(input, pos) = CH_BACKSLASH
    /\ peek(input, pos) \in {CH_LF, CH_CR, CH_LS, CH_PS}
    /\ GoRound(Top, skip_line_continuation(input, pos, peek(input, pos)))

StringOtherEscape ==
    /\ pc = "parse_string_loop"
    /\ Ch(input, pos) = CH_BACKSLASH
    /\ peek(input, pos) \notin
           {None, CH_x, CH_u, CH_LF, CH_CR, CH_LS, CH_PS} \cup CharacterEscapes
    /\ GoRound([Top EXCEPT !.v = Append(@, peek(input, pos))], next(next(pos)))

(* A turn on any other character: the closing mark or a character of the  *)
(* string.                                                                 *)
StringClose ==
    /\ pc = "parse_string_loop"
    /\ Ch(input, pos) = Top.mark
    /\ Return(String(Top.v), next(pos))

StringCharacter ==
    /\ pc = "parse_string_loop"
    /\ Ch(input, pos) \notin {None, CH_LF, CH_CR, CH_BACKSLASH, Top.mark}
    /\ GoRound([Top EXCEPT !.v = Append(@, Ch(input, pos))], next(pos))

(* parse_array and parse_object up to their loops.                         *)
ArrayEnter ==
    /\ pc = "parse_value"
    /\ Ch(input, pos) = CH_LBRACKET
    /\ Call("skip_comments", "parse_array_loop", path, next(pos))

ObjectEnter ==
    /\ pc = "parse_value"
    /\ Ch(input, pos) = CH_LBRACE
    /\ Call("skip_comments", "parse_object_loop", path, next(pos))

(* The head of a turn of the loop of parse_array or parse_object: the end *)
(* of input, the closing delimiter, or the call of parse_value.            *)
LoopHead(close, closed, ret) ==
    IF Ch(input, pos) = None THEN Fail(UnexpectedEndOfJson, pos)
    ELSE IF Ch(input, pos) = close THEN Return(closed, next(pos))
    ELSE Call("parse_value", ret, WithTop([Top EXCEPT !.at = pos]), pos)

ArrayLoop ==
    /\ pc = "parse_array_loop"
    /\ LoopHead(CH_RBRACKET, Array(Top.v), "parse_array_element")

ObjectLoop ==
    /\ pc = "parse_object_loop"
    /\ LoopHead(CH_RBRACE, Object(Top.m), "parse_object_key")

(* The element is pushed; the key must be a String.                        *)
ArrayElement ==
    /\ pc = "parse_array_element"
    /\ Call("skip_comments", "parse_array_separator",
            WithTop([Top EXCEPT !.v = Append(@, val)]), pos)

ObjectKey ==
    /\ pc = "parse_object_key"
    /\ IF val.t = "String"
       THEN Call("skip_comments", "parse_object_colon",
                 WithTop([Top EXCEPT !.key = val.s]), pos)
       ELSE Fail(UnexpectedCharacter, pos)

(* consume(':'), skip_comments, and the call of parse_value for the        *)
(* member's value.                                                         *)
ObjectColon ==
    /\ pc = "parse_object_colon"
    /\ IF Ch(input, pos) = CH_COLON
       THEN Call("skip_comments", "parse_object_value", path, next(pos))
       ELSE Fail(IF Ch(input, pos) = None THEN UnexpectedEndOfJson
                 ELSE UnexpectedCharacter, pos)

ObjectValue ==
    /\ pc = "parse_object_value"
    /\ Call("parse_value", "parse_object_member", path, pos)

ObjectMember ==
    /\ pc = "parse_object_member"
    /\ Call("skip_comments", "parse_object_separator",
            WithTop([Top EXCEPT !.m = HashMapInsert(@, Top.key, val)]), pos)

(* The end of a turn: the end of input, the closing delimiter, a comma    *)
(* and the comments behind it, or anything else.                           *)
LoopTail(close, closed, loop) ==
    IF Ch(input, pos) = None THEN Fail(UnexpectedEndOfJson, pos)
    ELSE IF Ch(input, pos) = close THEN Return(closed, next(pos))
    ELSE IF Ch(input, pos) = CH_COMMA THEN Call("skip_comments", loop, path, next(pos))
    ELSE Fail(UnexpectedCharacter, pos)

ArraySeparator ==
    /\ pc = "parse_array_separator"
    /\ LoopTail(CH_RBRACKET, Array(Top.v), "parse_array_loop")

ObjectSeparator ==
    /\ pc = "parse_object_separator"
    /\ LoopTail(CH_RBRACE, Object(Top.m), "parse_object_loop")

NextSteps ==
    \/ Enter \/ SkipCommentsEnter \/ SkipCommentsExit \/ SkipLineComment
    \/ SkipBlockComment \/ SkipCommentsFail \/ ParseLead \/ ParseTrail \/ ParseEnd
    \/ ScalarValue \/ StringEnter \/ StringFail \/ StringHexEscape
    \/ StringUnicodeEscape \/ StringCharacterEscape \/ StringLineContinuation
    \/ StringOtherEscape \/ StringClose \/ StringCharacter \/ ArrayEnter \/ ObjectEnter
    \/ ArrayLoop \/ ObjectLoop \/ ArrayElement \/ ObjectKey \/ ObjectColon
    \/ ObjectValue \/ ObjectMember \/ ArraySeparator \/ ObjectSeparator

InitSteps ==
    \E d \in StepDocs :
        /\ doc = d
        /\ input = DocText(d)
        /\ pos = 0
        /\ pc = "parse"
        /\ val = NoValue
        /\ result = Pending
        /\ path = <<>>

SpecSteps == InitSteps /\ [][NextSteps]_vars

(* parse is one sequential call: a step that can be taken is taken.        *)
SpecProgress == SpecSteps /\ WF_vars(NextSteps)

Loops ==
    {"skip_comments_loop", "parse_string_loop", "parse_array_loop", "parse_object_loop"}

(* The cursor has advanced at most once per character of the input, plus  *)
(* once.                                                                   *)
AdvanceBound == pos <= Len(input) + 1

(* At the head of a turn of a loop the cursor is behind where it was at   *)
(* the head of the turn before.                                            *)
LoopProgress == pc \in Loops => Top.at < pos

(* Behind the value of a whole document the cursor is on the first         *)
(* character of `trail`.                                                   *)
ProductionEnd ==
    (pc = "parse_trail" /\ doc.whole) => pos = Len(doc.lead) + Len(doc.value) + 1

(* parse has returned a value or one of the three errors, the same as the *)
(* routines applied as a whole give.                                       *)
Returned ==
    pc = "done" =>
        /\ result.err \in {NoError, UnexpectedEndOfJson, UnexpectedCharacter,
                           UnparseableNumber}
        /\ result.err = NoError <=> result.val # NoValue
        /\ result = parse(input)

(* The cursor never moves back; a routine that returns has not moved it   *)
(* back, and parse_value, whatever it dispatched to, has moved it forward. *)
Forward == pos' >= pos

RoutineProgress ==
    Len(path') < Len(path) =>
        /\ pos' >= Top.from
        /\ Top.routine = "parse_value" => pos' > Top.from

(* C15: the cursor only moves forward; a grammar routine that returns     *)
(* successfully has consumed at least one character and leaves the cursor  *)
(* on the first character after its production; every turn of a loop of   *)
(* skip_comments, parse_string, parse_array and parse_object consumes at  *)
(* least one character or returns; and so, for every input, parse         *)
(* eventually returns a value or one of the three errors, after at most   *)
(* one advance per character of the input plus one.                        *)
C15_Progress ==
    /\ [](AdvanceBound /\ LoopProgress /\ ProductionEnd /\ Returned)
    /\ [][Forward /\ RoutineProgress]_vars
    /\ <>(pc = "done")

(* The nested array between comments has parsed, the cursor one past the  *)
(* last character of the input.                                            *)
C15_Witness ==
    /\ pc = "done"
    /\ doc.whole
    /\ doc.value = D_MIXED
    /\ result.err = NoError
    /\ Len(result.val.v) = 3
    /\ pos = Len(input) + 1

===========================================================================
